---- MODULE Spec2Model ----
(***************************************************************************)
(* Jira insights dashboard: the data pipeline (row normalizer, ticket      *)
(* transformer, aggregation builder, worker copies of the same) and the    *)
(* insights engine, modelled from the TypeScript / JavaScript sources.     *)
(*                                                                         *)
(* Conventions.                                                            *)
(*  - A JavaScript string is a sequence of one-character strings, so that  *)
(*    toLowerCase, trim, includes, split and the key pattern are computed  *)
(*    character by character.                                              *)
(*  - An optional value (undefined / null / absent property) is the empty  *)
(*    sequence None; a present value v is <<v>>.                           *)
(*  - An instant (Date) is an integer number of milliseconds.              *)
(*  - Every component is a pure request/response function; each has its    *)
(*    own specification whose Init draws the input and whose actions are   *)
(*    the calls made on it.                                                *)
(***************************************************************************)
EXTENDS Integers, Sequences, FiniteSets, TLC

VARIABLES
    pc,             \* position of the run: "start", then one value per completed call
    bugs,           \* InsightsEngine.calculateMonthlyBugTrends: its argument
    monthlyTrends,  \* ... and the series it returned
    clock,          \* the instant new Date() returns
    rawData,        \* DataTransformationService.transformRawData: its argument (RawJiraData.tickets)
    processedData,  \* ... and the ProcessedJiraData it returned (None before the call)
    bugInsights,    \* InsightsEngine.generateBugInsights(processedData) (None before the call)
    headerRow,      \* XLSXParserService.createColumnMapping: the header row of the grid
    columnMap,      \* ... and its outcome (None before the call)
    sheet,          \* the grid of the uploaded file: the header row, then the data rows
    mainRaw,        \* main thread: the outcome of parseFile (None before the call)
    mainData,       \* main thread: the result of transformRawData (None before the call)
    posted,         \* worker: the messages it has posted, in order
    epicInsights,   \* InsightsEngine.generateEpicInsights(processedData) (None before the call)
    ticketInsights, \* InsightsEngine.generateTicketInsights(processedData): returned or thrown
    achievements,   \* InsightsEngine.generateAchievements(processedData) (None before the call)
    improvementAreas, \* InsightsEngine.generateImprovementAreas(processedData) (None before the call)
    csvText,        \* XLSXParserService.parseCSVText: the text of the CSV file
    csvRows,        \* ... and the rows it returned (None before the call)
    uploadFile,     \* PerformantApp.handleFileSelected: the File (size, name, type)
    workerSupported, \* useWebWorker: isSupported (typeof Worker !== 'undefined')
    appStage,       \* PerformantApp: state.stage
    appError,       \* PerformantApp: state.error (None for null)
    steps,          \* the read and parse operations that have run on the file, in order
    inbox,          \* worker: the request messages it has received and not yet handled
    handled,        \* worker: the request messages its onmessage has handled, in order
    sprintCell,     \* XLSXParserService.parseSprints: the value of the sprint cell
    parsedSprints,  \* ... and the list it returned (None before the call)
    callbacks,      \* useWebWorker: callbacksRef.current, the Map from request id to callback
    hookLog,        \* the calls of postMessage and terminate and the messages onmessage got
    appState,       \* PerformantApp: the state of useState<AppState>
    delivered,      \* the number of messages of posted the hook's onmessage has received
    uiEvents,       \* FileUploadComponent: the drop and change events, in order
    isDragOver,     \* FileUploadComponent: the state of useState(false)
    rendered        \* PerformantApp: what the last render showed (isProcessing, insights or not)

trendVars == <<bugs, monthlyTrends>>
transformVars == <<clock, rawData, processedData, bugInsights>>
columnVars == <<headerRow, columnMap>>
pipelineVars == <<sheet, mainRaw, mainData, posted>>
insightVars == <<epicInsights, ticketInsights, achievements, improvementAreas>>
csvVars == <<csvText, csvRows>>
uploadVars == <<uploadFile, workerSupported, appStage, appError, steps>>
workerVars == <<inbox, handled>>
sprintVars == <<sprintCell, parsedSprints>>
hookVars == <<callbacks, hookLog>>
appVars == <<appState, delivered, uiEvents, isDragOver>>
renderVars == <<rendered>>
vars == <<pc, bugs, monthlyTrends, clock, rawData, processedData, bugInsights,
          headerRow, columnMap, sheet, mainRaw, mainData, posted, epicInsights,
          ticketInsights, achievements, improvementAreas, csvText, csvRows, uploadFile,
          workerSupported, appStage, appError, steps, inbox, handled, sprintCell,
          parsedSprints, callbacks, hookLog, appState, delivered, uiEvents, isDragOver,
          rendered>>

-----------------------------------------------------------------------------
(* Generic helpers *)

None == <<>>
Some(v) == <<v>>
IsSome(o) == o # <<>>
Get(o) == o[1]

Max(a, b) == IF a >= b THEN a ELSE b

\* All sequences over S of length 0..n
SeqsUpTo(S, n) == UNION {[1..k -> S] : k \in 0..n}

SetMin(S) == CHOOSE x \in S : \A y \in S : x <= y

\* Array.prototype.sort() on a set of integer keys: ascending
RECURSIVE SortAsc(_)
SortAsc(S) == IF S = {} THEN <<>> ELSE <<SetMin(S)>> \o SortAsc(S \ {SetMin(S)})

RECURSIVE SumSeq(_)
SumSeq(s) == IF s = <<>> THEN 0 ELSE Head(s) + SumSeq(Tail(s))

Range(s) == {s[i] : i \in DOMAIN s}

-----------------------------------------------------------------------------
(* JavaScript strings as character sequences *)

\* The characters used, in UTF-16 code unit order
Alphabet ==
    <<" ", "(", ")", ",", "-", "0", "1", "2", "3", "4", "5", "6", "7", "8", "9", ";", "=",
      "A", "B", "C", "D", "E", "F", "G", "H", "I", "J", "K", "L", "M",
      "N", "O", "P", "Q", "R", "S", "T", "U", "V", "W", "X", "Y", "Z", "[", "]",
      "a", "b", "c", "d", "e", "f", "g", "h", "i", "j", "k", "l", "m",
      "n", "o", "p", "q", "r", "s", "t", "u", "v", "w", "x", "y", "z", "|">>

CharCode(c) == CHOOSE i \in DOMAIN Alphabet : Alphabet[i] = c

UpperSeq == <<"A", "B", "C", "D", "E", "F", "G", "H", "I", "J", "K", "L", "M",
             "N", "O", "P", "Q", "R", "S", "T", "U", "V", "W", "X", "Y", "Z">>
LowerSeq == <<"a", "b", "c", "d", "e", "f", "g", "h", "i", "j", "k", "l", "m",
             "n", "o", "p", "q", "r", "s", "t", "u", "v", "w", "x", "y", "z">>
UpperChars == Range(UpperSeq)
DigitChars == {"0", "1", "2", "3", "4", "5", "6", "7", "8", "9"}

LowerChar(c) ==
    IF c \in UpperChars THEN LowerSeq[CHOOSE i \in DOMAIN UpperSeq : UpperSeq[i] = c] ELSE c

ToLowerCase(s) == [i \in DOMAIN s |-> LowerChar(s[i])]

\* The white space String.prototype.trim removes, as far as it occurs in the inputs
WhiteSpace == {" ", "\t", "\n", "\r"}

RECURSIVE TrimStart(_)
TrimStart(s) == IF s # <<>> /\ Head(s) \in WhiteSpace THEN TrimStart(Tail(s)) ELSE s

RECURSIVE TrimEnd(_)
TrimEnd(s) ==
    IF s # <<>> /\ s[Len(s)] \in WhiteSpace THEN TrimEnd(SubSeq(s, 1, Len(s) - 1)) ELSE s

Trim(s) == TrimEnd(TrimStart(s))

\* String.prototype.includes
Includes(s, sub) ==
    \E i \in 0..(Len(s) - Len(sub)) : SubSeq(s, i + 1, i + Len(sub)) = sub

\* String.prototype.split on a one-character separator
RECURSIVE SplitFrom(_, _, _)
SplitFrom(s, sep, current) ==
    IF s = <<>> THEN <<current>>
    ELSE IF Head(s) = sep THEN <<current>> \o SplitFrom(Tail(s), sep, <<>>)
    ELSE SplitFrom(Tail(s), sep, Append(current, Head(s)))

Split(s, sep) == SplitFrom(s, sep, <<>>)

\* Code unit order of two strings (the default Array.prototype.sort order)
RECURSIVE StrLess(_, _)
StrLess(a, b) ==
    IF b = <<>> THEN FALSE
    ELSE IF a = <<>> THEN TRUE
    ELSE IF Head(a) # Head(b) THEN CharCode(Head(a)) < CharCode(Head(b))
    ELSE StrLess(Tail(a), Tail(b))

StrMin(S) == CHOOSE x \in S : \A y \in S \ {x} : StrLess(x, y)

RECURSIVE SortStrings(_)
SortStrings(S) == IF S = {} THEN <<>> ELSE <<StrMin(S)>> \o SortStrings(S \ {StrMin(S)})

\* a truthy optional string: present and not empty
Truthy(o) == IsSome(o) /\ Get(o) # <<>>

-----------------------------------------------------------------------------
(* DataTransformationService (main thread)                                 *)

DayMs == 86400000

\* A date string held by a raw ticket: kind "iso" is toISOString() of the instant ms,
\* "garbage" a non-empty string new Date() cannot parse, "empty" the string ''
IsoString(ms) == [kind |-> "iso", ms |-> ms]
GarbageDateString == [kind |-> "garbage", ms |-> 0]
EmptyDateString == [kind |-> "empty", ms |-> 0]

\* parseDate: new Date(dateString), null when getTime() is NaN
parseDate(dateString) == IF dateString.kind = "iso" THEN Some(dateString.ms) ELSE None

\* Math.ceil(a / b) for b > 0
CeilDiv(a, b) == -((-a) \div b)

\* The mutated duration: Math.floor in place of Math.ceil
calculateDurationFloor(createdDate, resolvedDate) ==
    IF ~IsSome(resolvedDate) THEN None
    ELSE Some(Max(0, (Get(resolvedDate) - createdDate) \div DayMs))

calculateDuration(createdDate, resolvedDate) ==
    IF ~IsSome(resolvedDate) THEN None
    ELSE LET diffInMs == Get(resolvedDate) - createdDate
             diffInDays == CeilDiv(diffInMs, DayMs)
         IN  Some(Max(0, diffInDays))

\* new Set(sprints.filter(sprint => sprint && sprint.trim().length > 0)).size
calculateSprintCount(sprints) ==
    Cardinality({sprints[i] : i \in {j \in DOMAIN sprints :
                                        sprints[j] # <<>> /\ Len(Trim(sprints[j])) > 0}})

escapedBugIndicators ==
    <<<<"r","e","g","r","e","s","s","i","o","n"," ","t","e","s","t","i","n","g">>, <<"u","a","t">>, <<"u","s","e","r"," ","a","c","c","e","p","t","a","n","c","e"," ","t","e","s","t","i","n","g">>, <<"p","r","o","d","u","c","t","i","o","n">>,
      <<"c","u","s","t","o","m","e","r">>, <<"e","x","t","e","r","n","a","l">>, <<"q","a">>, <<"t","e","s","t","i","n","g">>>>

\* The mutated classification: the issue type is not looked at
isEscapedBugAnyType(rawTicket) ==
    /\ Truthy(rawTicket.originTicketType)
    /\ \E i \in DOMAIN escapedBugIndicators :
           Includes(ToLowerCase(Get(rawTicket.originTicketType)), escapedBugIndicators[i])

isEscapedBug(rawTicket) ==
    IF ToLowerCase(rawTicket.issueType) # <<"b","u","g">> THEN FALSE
    ELSE IF ~Truthy(rawTicket.originTicketType) THEN FALSE
    ELSE LET originType == ToLowerCase(Get(rawTicket.originTicketType))
         IN  \E i \in DOMAIN escapedBugIndicators : Includes(originType, escapedBugIndicators[i])

normalizeStoryPoints(storyPoints) ==
    IF ~IsSome(storyPoints) THEN 0 ELSE Max(0, Get(storyPoints))

\* transformSingleTicket: None is the null it returns for a ticket it skips
transformSingleTicket(rawTicket) ==
    IF \/ rawTicket.key = <<>> \/ rawTicket.summary = <<>> \/ rawTicket.issueType = <<>>
       \/ rawTicket.status = <<>> \/ rawTicket.created.kind = "empty"
    THEN None
    ELSE IF ~IsSome(parseDate(rawTicket.created)) THEN None
    ELSE LET createdDate == Get(parseDate(rawTicket.created))
             resolvedDate == IF IsSome(rawTicket.resolved)
                                /\ Get(rawTicket.resolved).kind # "empty"
                             THEN parseDate(Get(rawTicket.resolved))
                             ELSE None
         IN  Some([key |-> rawTicket.key,
                   summary |-> rawTicket.summary,
                   issueType |-> rawTicket.issueType,
                   status |-> rawTicket.status,
                   parentKey |-> rawTicket.parentKey,
                   storyPoints |-> normalizeStoryPoints(rawTicket.storyPoints),
                   createdDate |-> createdDate,
                   resolvedDate |-> resolvedDate,
                   duration |-> calculateDuration(createdDate, resolvedDate),
                   sprintCount |-> calculateSprintCount(rawTicket.sprints),
                   isEscapedBug |-> isEscapedBug(rawTicket),
                   summaryLength |-> Len(rawTicket.summary)])

RECURSIVE transformTickets(_)
transformTickets(rawTickets) ==
    IF rawTickets = <<>> THEN <<>>
    ELSE transformSingleTicket(Head(rawTickets)) \o transformTickets(Tail(rawTickets))

\* The mutated status test: the status is compared without lower-casing it
isTicketCompletedCaseSensitive(status) == status \in {<<"d","o","n","e">>, <<"c","l","o","s","e","d">>, <<"r","e","s","o","l","v","e","d">>}

isTicketCompleted(status) == ToLowerCase(status) \in {<<"d","o","n","e">>, <<"c","l","o","s","e","d">>, <<"r","e","s","o","l","v","e","d">>}

\* The mutated entry: the epic starts with itself counted as a member
NewEpicCountingItself(key, name) ==
    [key |-> key, name |-> name, ticketCount |-> 1, totalStoryPoints |-> 0,
     completedTickets |-> 0]

\* A Map<string, Epic> is the sequence of its values in insertion order
NewEpic(key, name) ==
    [key |-> key, name |-> name, ticketCount |-> 0, totalStoryPoints |-> 0,
     completedTickets |-> 0]

MapHas(epicMap, key) == \E i \in DOMAIN epicMap : epicMap[i].key = key
MapIndex(epicMap, key) == CHOOSE i \in DOMAIN epicMap : epicMap[i].key = key
MapSet(epicMap, key, value) ==
    IF MapHas(epicMap, key) THEN [epicMap EXCEPT ![MapIndex(epicMap, key)] = value]
    ELSE Append(epicMap, value)

\* Step 1: an entry for every ticket typed epic
RECURSIVE EpicsOfEpicTickets(_, _)
EpicsOfEpicTickets(processedTickets, epicMap) ==
    IF processedTickets = <<>> THEN epicMap
    ELSE LET ticket == Head(processedTickets)
         IN  EpicsOfEpicTickets(Tail(processedTickets),
                 IF ToLowerCase(ticket.issueType) = <<"e","p","i","c">>
                 THEN MapSet(epicMap, ticket.key, NewEpic(ticket.key, ticket.summary))
                 ELSE epicMap)

\* Step 2: an entry for every parentKey that comes with a parentSummary
RECURSIVE EpicsOfParentFields(_, _)
EpicsOfParentFields(rawTickets, epicMap) ==
    IF rawTickets = <<>> THEN epicMap
    ELSE LET rawTicket == Head(rawTickets)
         IN  EpicsOfParentFields(Tail(rawTickets),
                 IF /\ Truthy(rawTicket.parentKey) /\ Truthy(rawTicket.parentSummary)
                    /\ ~MapHas(epicMap, Get(rawTicket.parentKey))
                 THEN Append(epicMap, NewEpic(Get(rawTicket.parentKey),
                                              Get(rawTicket.parentSummary)))
                 ELSE epicMap)

\* Step 3: count every ticket into the entry of its parentKey
RECURSIVE AggregateTickets(_, _)
AggregateTickets(processedTickets, epicMap) ==
    IF processedTickets = <<>> THEN epicMap
    ELSE LET ticket == Head(processedTickets)
         IN  AggregateTickets(Tail(processedTickets),
                 IF Truthy(ticket.parentKey) /\ MapHas(epicMap, Get(ticket.parentKey))
                 THEN LET i == MapIndex(epicMap, Get(ticket.parentKey))
                          epic == epicMap[i]
                      IN  [epicMap EXCEPT ![i] =
                              [epic EXCEPT
                                  !.ticketCount = @ + 1,
                                  !.totalStoryPoints = @ + ticket.storyPoints,
                                  !.completedTickets =
                                      IF isTicketCompleted(ticket.status) THEN @ + 1 ELSE @]]
                 ELSE epicMap)

HasTickets(epic) == epic.ticketCount > 0

buildEpicAggregations(processedTickets, rawTickets) ==
    SelectSeq(AggregateTickets(processedTickets,
                  EpicsOfParentFields(rawTickets, EpicsOfEpicTickets(processedTickets, <<>>))),
              HasTickets)

\* The mutated team split: the segments are not trimmed
TeamsOfUntrimmed(rawTicket) ==
    IF Truthy(rawTicket.team) /\ Trim(Get(rawTicket.team)) # <<>>
    THEN Range(Split(Get(rawTicket.team), ",")) \ {<<>>}
    ELSE {}

\* ticket.team.split(',').map(trim).filter(team => team), for a ticket that has a team
TeamsOf(rawTicket) ==
    IF Truthy(rawTicket.team) /\ Trim(Get(rawTicket.team)) # <<>>
    THEN {Trim(part) : part \in Range(Split(Get(rawTicket.team), ","))} \ {<<>>}
    ELSE {}

extractUniqueTeams(rawTickets) ==
    SortStrings(UNION {TeamsOf(rawTickets[i]) : i \in DOMAIN rawTickets})

RECURSIVE DateRangeLoop(_, _, _)
DateRangeLoop(processedTickets, startDate, endDate) ==
    IF processedTickets = <<>> THEN [start |-> startDate, end |-> endDate]
    ELSE LET ticket == Head(processedTickets)
             s1 == IF ticket.createdDate < startDate THEN ticket.createdDate ELSE startDate
             e1 == IF ticket.createdDate > endDate THEN ticket.createdDate ELSE endDate
             s2 == IF IsSome(ticket.resolvedDate) /\ Get(ticket.resolvedDate) < s1
                   THEN Get(ticket.resolvedDate) ELSE s1
             e2 == IF IsSome(ticket.resolvedDate) /\ Get(ticket.resolvedDate) > e1
                   THEN Get(ticket.resolvedDate) ELSE e1
         IN  DateRangeLoop(Tail(processedTickets), s2, e2)

calculateDateRange(processedTickets, now) ==
    IF processedTickets = <<>> THEN [start |-> now, end |-> now]
    ELSE DateRangeLoop(processedTickets, processedTickets[1].createdDate,
                       processedTickets[1].createdDate)

transformRawData(rawTickets, now) ==
    LET processedTickets == transformTickets(rawTickets)
    IN  [tickets |-> processedTickets,
         epics |-> buildEpicAggregations(processedTickets, rawTickets),
         teams |-> extractUniqueTeams(rawTickets),
         dateRange |-> calculateDateRange(processedTickets, now)]

-----------------------------------------------------------------------------
(* InsightsEngine.generateBugInsights: the bug sets and the two statistics  *)
(* records (the trend series are modelled by calculateMonthlyBugTrends)    *)

isTicketClosed(status) == ToLowerCase(status) \in {<<"d","o","n","e">>, <<"c","l","o","s","e","d">>, <<"r","e","s","o","l","v","e","d">>}

\* The mutated bug test: every ticket counts as a bug
IsBugTypedAnyType(ticket) == TRUE

IsBugTyped(ticket) == ToLowerCase(ticket.issueType) = <<"b","u","g">>
IsEscaped(ticket) == ticket.isEscapedBug
IsClosed(ticket) == isTicketClosed(ticket.status)
IsOpen(ticket) == ~isTicketClosed(ticket.status)
HasDuration(ticket) == IsSome(ticket.duration)

RECURSIVE SumDurations(_)
SumDurations(ts) ==
    IF ts = <<>> THEN 0 ELSE Get(Head(ts).duration) + SumDurations(Tail(ts))

\* Math.round(total / n), null when no closed bug has a duration
calculateAverageResolutionTime(closedBugs) ==
    LET bugsWithDuration == SelectSeq(closedBugs, HasDuration)
        n == Len(bugsWithDuration)
    IN  IF n = 0 THEN None
        ELSE Some((2 * SumDurations(bugsWithDuration) + n) \div (2 * n))

generateBugInsights(data) ==
    LET allBugs == SelectSeq(data.tickets, IsBugTyped)
        escapedBugs == SelectSeq(data.tickets, IsEscaped)
        allBugsClosed == SelectSeq(allBugs, IsClosed)
    IN  [allBugStats |->
            [totalCreated |-> Len(allBugs),
             totalClosed |-> Len(allBugsClosed),
             totalOpen |-> Len(SelectSeq(allBugs, IsOpen)),
             averageResolutionTime |-> calculateAverageResolutionTime(allBugsClosed)],
         escapedBugStats |->
            [totalCreated |-> Len(escapedBugs),
             totalClosed |-> Len(SelectSeq(escapedBugs, IsClosed)),
             totalOpen |-> Len(SelectSeq(escapedBugs, IsOpen)),
             percentageOfAllBugs |->
                 IF Len(allBugs) > 0
                 THEN (200 * Len(escapedBugs) + Len(allBugs)) \div (2 * Len(allBugs))
                 ELSE 0]]

-----------------------------------------------------------------------------
(* Specification of the transformer: transformRawData on a raw ticket list, *)
(* then generateBugInsights on its result                                  *)

MaxTickets == 3
MaxShort == 2
MaxSprints == 3

BaseTicket ==
    [key |-> <<"P","-","7">>, summary |-> <<"a","b">>, issueType |-> <<"S","t","o","r","y">>, status |-> <<"O","p","e","n">>,
     created |-> IsoString(0), sprints |-> <<>>, parent |-> None, parentKey |-> None,
     parentSummary |-> None, team |-> None, storyPoints |-> None, resolved |-> None,
     originTicketType |-> None]

\* How a ticket names its epic: not at all, by parentKey alone, by parentKey and
\* parentSummary, by the parent field alone, or by the parentKey and parentSummary of
\* a key that is no ticket of the list
ParentLinks ==
    {[parent |-> None, parentKey |-> None, parentSummary |-> None],
     [parent |-> None, parentKey |-> Some(<<"P","-","1">>), parentSummary |-> None],
     [parent |-> None, parentKey |-> Some(<<"P","-","1">>), parentSummary |-> Some(<<"E","p">>)],
     [parent |-> Some(<<"P","-","1">>), parentKey |-> None, parentSummary |-> None],
     [parent |-> None, parentKey |-> Some(<<"P","-","9">>), parentSummary |-> Some(<<"N","i","n","e">>)]}

\* An epic ticket P-1 and stories P-2 (3 points) and P-3 (5 points)
AggTickets ==
    {[BaseTicket EXCEPT !.key = <<"P","-","1">>, !.summary = <<"E","p","i","c"," ","o","n","e">>, !.issueType = <<"E","p","i","c">>,
                        !.status = <<"I","n"," ","P","r","o","g","r","e","s","s">>]}
    \cup {[BaseTicket EXCEPT !.key = kp[1], !.storyPoints = Some(kp[2]), !.status = st,
                             !.parent = link.parent, !.parentKey = link.parentKey,
                             !.parentSummary = link.parentSummary] :
             kp \in {<<<<"P","-","2">>, 3>>, <<<<"P","-","3">>, 5>>},
             st \in {<<"D","o","n","e">>, <<"O","p","e","n">>},
             link \in ParentLinks}

OriginTypes ==
    {None, Some(<<>>), Some(<<"U","A","T">>), Some(<<"P","r","o","d","u","c","t","i","o","n">>), Some(<<"C","u","s","t","o","m","e","r">>),
     Some(<<"E","x","t","e","r","n","a","l">>), Some(<<"Q","A">>), Some(<<"T","e","s","t","i","n","g">>), Some(<<"D","e","v">>)}

BugTickets ==
    {[BaseTicket EXCEPT !.issueType = ty, !.originTicketType = origin] :
        ty \in {<<"B","u","g">>, <<"b","u","g">>, <<"S","t","o","r","y">>}, origin \in OriginTypes}

CreatedInstants == {0, 1, DayMs}
ResolvedInstants == {0, 1, DayMs \div 3, DayMs, DayMs + 1, 9 * DayMs}

DurTickets ==
    {[BaseTicket EXCEPT !.issueType = <<"B","u","g">>, !.status = <<"D","o","n","e">>,
                        !.created = IsoString(c), !.resolved = r] :
        c \in CreatedInstants,
        r \in {None, Some(GarbageDateString)} \cup {Some(IsoString(t)) : t \in ResolvedInstants}}

SprintLabels == {<<"S","1">>, <<" ","S","1">>, <<"S","2">>, <<>>, <<" ">>}

SprintTickets ==
    {[BaseTicket EXCEPT !.sprints = sp] : sp \in SeqsUpTo(SprintLabels, MaxSprints)}

\* Tickets that lack a required field, and tickets with teams and negative points
OtherTickets ==
    {[BaseTicket EXCEPT !.summary = <<>>],
     [BaseTicket EXCEPT !.created = GarbageDateString],
     [BaseTicket EXCEPT !.storyPoints = Some(-2), !.team = Some(<<"W","e","b",","," ","C","o","r","e">>)],
     [BaseTicket EXCEPT !.team = Some(<<"C","o","r","e",",",","," ","A","p","i"," ">>)]}

TransformInputs ==
    SeqsUpTo(AggTickets, MaxTickets)
    \cup SeqsUpTo(BugTickets \cup OtherTickets, MaxShort)
    \cup SeqsUpTo(DurTickets, MaxShort)
    \cup {<<t>> : t \in SprintTickets}

ClockValues == {20 * DayMs}

TransformInit ==
    /\ pc = "start"
    /\ clock \in ClockValues
    /\ rawData \in TransformInputs
    /\ processedData = None
    /\ bugInsights = None
    /\ bugs = <<>>
    /\ monthlyTrends = <<>>
    /\ headerRow = <<>>
    /\ columnMap = None
    /\ sheet = <<>>
    /\ mainRaw = None
    /\ mainData = None
    /\ posted = <<>>
    /\ epicInsights = None
    /\ ticketInsights = None
    /\ achievements = None
    /\ improvementAreas = None
    /\ csvText = None
    /\ csvRows = None
    /\ uploadFile = None
    /\ workerSupported = None
    /\ appStage = None
    /\ appError = None
    /\ steps = None
    /\ inbox = None
    /\ handled = None
    /\ sprintCell = None
    /\ parsedSprints = None
    /\ callbacks = None
    /\ hookLog = None
    /\ appState = None
    /\ delivered = None
    /\ uiEvents = None
    /\ isDragOver = None
    /\ rendered = None

TransformRawData ==
    /\ pc = "start"
    /\ processedData' = Some(transformRawData(rawData, clock))
    /\ pc' = "transformed"
    /\ UNCHANGED <<clock, rawData, bugInsights>>
    /\ UNCHANGED trendVars
    /\ UNCHANGED columnVars
    /\ UNCHANGED pipelineVars
    /\ UNCHANGED insightVars
    /\ UNCHANGED csvVars
    /\ UNCHANGED uploadVars
    /\ UNCHANGED workerVars
    /\ UNCHANGED sprintVars
    /\ UNCHANGED hookVars
    /\ UNCHANGED appVars
    /\ UNCHANGED renderVars

GenerateBugInsights ==
    /\ pc = "transformed"
    /\ bugInsights' = Some(generateBugInsights(Get(processedData)))
    /\ pc' = "insights"
    /\ UNCHANGED <<clock, rawData, processedData>>
    /\ UNCHANGED trendVars
    /\ UNCHANGED columnVars
    /\ UNCHANGED pipelineVars
    /\ UNCHANGED insightVars
    /\ UNCHANGED csvVars
    /\ UNCHANGED uploadVars
    /\ UNCHANGED workerVars
    /\ UNCHANGED sprintVars
    /\ UNCHANGED hookVars
    /\ UNCHANGED appVars
    /\ UNCHANGED renderVars

TransformNext == TransformRawData \/ GenerateBugInsights

SpecTransform == TransformInit /\ [][TransformNext]_vars

Transformed == pc \in {"transformed", "insights"}
Tickets == Get(processedData).tickets
Epics == Get(processedData).epics

\* The raw tickets the transformer keeps: all five required fields non-empty and a
\* created string that parses
IsComplete(rawTicket) ==
    /\ rawTicket.key # <<>> /\ rawTicket.summary # <<>> /\ rawTicket.issueType # <<>>
    /\ rawTicket.status # <<>> /\ rawTicket.created.kind = "iso"
KeptRaw == SelectSeq(rawData, IsComplete)

\* The derived tickets whose parentKey is key
Members(key) ==
    {i \in DOMAIN Tickets : IsSome(Tickets[i].parentKey) /\ Get(Tickets[i].parentKey) = key}

RECURSIVE PointsOf(_)
PointsOf(S) ==
    IF S = {} THEN 0
    ELSE LET i == CHOOSE j \in S : TRUE IN Tickets[i].storyPoints + PointsOf(S \ {i})

CompletedMembers(key) ==
    {i \in Members(key) : ToLowerCase(Tickets[i].status) \in {<<"d","o","n","e">>, <<"c","l","o","s","e","d">>, <<"r","e","s","o","l","v","e","d">>}}

ScenarioEpic ==
    [BaseTicket EXCEPT !.key = <<"P","-","1">>, !.summary = <<"E","p","i","c"," ","o","n","e">>, !.issueType = <<"E","p","i","c">>,
                       !.status = <<"I","n"," ","P","r","o","g","r","e","s","s">>]
ScenarioChild(key, points) ==
    [BaseTicket EXCEPT !.key = key, !.storyPoints = Some(points), !.status = <<"D","o","n","e">>,
                       !.parentKey = Some(<<"P","-","1">>), !.parentSummary = Some(<<"E","p">>)]
ScenarioParentChild(key, points, status) ==
    [BaseTicket EXCEPT !.key = key, !.storyPoints = Some(points), !.status = status,
                       !.parent = Some(<<"P","-","1">>)]

\* C6: every grouping returned by buildEpicAggregations has ticketCount = the number
\* of derived tickets whose parentKey is its key, totalStoryPoints = the sum of their
\* story points, completedTickets = the number of them with a lower-cased status of
\* done, closed or resolved, and ticketCount > 0; an epic with two Done children of 3
\* and 5 points (linked by parentKey, parentSummary present) yields exactly one
\* grouping with ticketCount 2, totalStoryPoints 8, completedTickets 2
C6_GroupingCounts ==
    Transformed =>
        /\ \A g \in DOMAIN Epics :
               /\ Epics[g].ticketCount = Cardinality(Members(Epics[g].key))
               /\ Epics[g].totalStoryPoints = PointsOf(Members(Epics[g].key))
               /\ Epics[g].completedTickets = Cardinality(CompletedMembers(Epics[g].key))
               /\ Epics[g].ticketCount > 0
        /\ (Len(rawData) = 3
            /\ Range(rawData) = {ScenarioEpic, ScenarioChild(<<"P","-","2">>, 3), ScenarioChild(<<"P","-","3">>, 5)})
           => /\ Len(Epics) = 1
              /\ Epics[1].key = <<"P","-","1">>
              /\ Epics[1].ticketCount = 2
              /\ Epics[1].totalStoryPoints = 8
              /\ Epics[1].completedTickets = 2

C6_Witness ==
    /\ Transformed
    /\ rawData = <<ScenarioEpic, ScenarioChild(<<"P","-","2">>, 3), ScenarioChild(<<"P","-","3">>, 5)>>
    /\ Len(Epics) = 1
    /\ Epics[1].completedTickets = 2

\* C7: an Epic-typed ticket followed by N >= 1 tickets whose parent field holds the
\* epic's key gives exactly one epic for that key, named after the epic ticket's summary,
\* with ticketCount N, totalStoryPoints the sum of the children's points and
\* completedTickets the number of children with a completed status
C7_ParentFieldAggregation ==
    (/\ Transformed
     /\ Len(rawData) >= 2
     /\ rawData[1] = ScenarioEpic
     /\ \A i \in 2..Len(rawData) :
            \E kp \in {<<<<"P","-","2">>, 3>>, <<<<"P","-","3">>, 5>>}, st \in {<<"D","o","n","e">>, <<"O","p","e","n">>} :
                rawData[i] = ScenarioParentChild(kp[1], kp[2], st))
    => /\ Len(Epics) = 1
       /\ Epics[1].key = <<"P","-","1">>
       /\ Epics[1].name = <<"E","p","i","c"," ","o","n","e">>
       /\ Epics[1].ticketCount = Len(rawData) - 1
       /\ Epics[1].totalStoryPoints = SumSeq([i \in 1..(Len(rawData) - 1) |->
                                                 Get(rawData[i + 1].storyPoints)])
       /\ Epics[1].completedTickets =
              Cardinality({i \in 2..Len(rawData) : rawData[i].status = <<"D","o","n","e">>})

\* C8: duration = max(0, ceil((resolved - created) / one day)), i.e. the least natural
\* number of days that covers the difference: never negative, 1 for a positive
\* difference of less than a day, and undefined exactly when the resolved date is absent
C8_Duration ==
    Transformed =>
        \A i \in DOMAIN Tickets :
            LET t == Tickets[i] IN
            /\ IsSome(t.duration) <=> IsSome(t.resolvedDate)
            /\ IsSome(t.resolvedDate) =>
                   LET diff == Get(t.resolvedDate) - t.createdDate
                       d == Get(t.duration)
                   IN  /\ d >= 0
                       /\ d * DayMs >= diff
                       /\ d = 0 \/ (d - 1) * DayMs < diff
                       /\ (0 < diff /\ diff < DayMs) => d = 1

\* A resolved date before the created date, and a positive difference under one day
C8_Witness ==
    /\ Transformed
    /\ \E i \in DOMAIN Tickets :
           /\ IsSome(Tickets[i].resolvedDate)
           /\ Get(Tickets[i].resolvedDate) < Tickets[i].createdDate
           /\ Tickets[i].duration = Some(0)
    /\ \E i \in DOMAIN Tickets :
           /\ IsSome(Tickets[i].resolvedDate)
           /\ Get(Tickets[i].resolvedDate) - Tickets[i].createdDate = DayMs \div 3
           /\ Tickets[i].duration = Some(1)

\* C9: sprintCount is the number of distinct non-empty trimmed sprint labels
C9_SprintCountOfTrimmedLabels ==
    Transformed =>
        /\ Len(Tickets) = Len(KeptRaw)
        /\ \A i \in DOMAIN Tickets :
               Tickets[i].sprintCount =
                   Cardinality({Trim(l) : l \in Range(KeptRaw[i].sprints)} \ {<<>>})

C10_Indicators ==
    {<<"r","e","g","r","e","s","s","i","o","n"," ","t","e","s","t","i","n","g">>, <<"u","a","t">>, <<"u","s","e","r"," ","a","c","c","e","p","t","a","n","c","e"," ","t","e","s","t","i","n","g">>, <<"p","r","o","d","u","c","t","i","o","n">>,
     <<"c","u","s","t","o","m","e","r">>, <<"e","x","t","e","r","n","a","l">>, <<"q","a">>, <<"t","e","s","t","i","n","g">>}

\* C10: isEscapedBug is true iff the issue type is 'bug' case-insensitively, the origin
\* ticket type is present and its lower-cased value contains one of the eight
\* indicators; so every escaped ticket is bug-typed and generateBugInsights reports
\* escapedBugStats.totalCreated <= allBugStats.totalCreated
C10_EscapedBug ==
    /\ Transformed =>
        /\ Len(Tickets) = Len(KeptRaw)
        /\ \A i \in DOMAIN Tickets :
               /\ Tickets[i].isEscapedBug <=>
                      /\ ToLowerCase(KeptRaw[i].issueType) = <<"b","u","g">>
                      /\ IsSome(KeptRaw[i].originTicketType)
                      /\ \E ind \in C10_Indicators :
                             Includes(ToLowerCase(Get(KeptRaw[i].originTicketType)), ind)
               /\ Tickets[i].isEscapedBug => ToLowerCase(Tickets[i].issueType) = <<"b","u","g">>
    /\ pc = "insights" =>
        /\ Get(bugInsights).escapedBugStats.totalCreated
               <= Get(bugInsights).allBugStats.totalCreated
        /\ Get(bugInsights).escapedBugStats.totalCreated
               = Cardinality({i \in DOMAIN Tickets : Tickets[i].isEscapedBug})

\* An escaped bug next to a story with the same origin ticket type
C10_Witness ==
    /\ pc = "insights"
    /\ Len(Tickets) = 2
    /\ Tickets[1].isEscapedBug /\ Tickets[1].issueType = <<"b","u","g">>
    /\ ~Tickets[2].isEscapedBug /\ Tickets[2].issueType = <<"S","t","o","r","y">>
    /\ rawData[2].originTicketType = Some(<<"U","A","T">>)
    /\ Get(bugInsights).escapedBugStats.totalCreated = 1

-----------------------------------------------------------------------------
(* XLSXParserService.createColumnMapping                                   *)
(* Column indexes are 1-based here (index i is the JavaScript index i - 1). *)

\* COLUMN_MAPPINGS, in declaration order (the order Object.entries walks)
COLUMN_MAPPINGS ==
    <<[field |-> "key", names |-> <<<<"k","e","y">>, <<"i","s","s","u","e"," ","k","e","y">>, <<"t","i","c","k","e","t"," ","k","e","y">>, <<"i","d">>>>],
      [field |-> "summary", names |-> <<<<"s","u","m","m","a","r","y">>, <<"t","i","t","l","e">>, <<"d","e","s","c","r","i","p","t","i","o","n">>>>],
      [field |-> "issueType", names |-> <<<<"i","s","s","u","e"," ","t","y","p","e">>, <<"t","y","p","e">>, <<"i","s","s","u","e","t","y","p","e">>>>],
      [field |-> "status", names |-> <<<<"s","t","a","t","u","s">>, <<"s","t","a","t","e">>>>],
      [field |-> "parent", names |-> <<<<"p","a","r","e","n","t">>, <<"e","p","i","c"," ","l","i","n","k">>, <<"e","p","i","c">>>>],
      [field |-> "parentKey", names |-> <<<<"p","a","r","e","n","t"," ","k","e","y">>>>],
      [field |-> "parentSummary",
       names |-> <<<<"p","a","r","e","n","t"," ","s","u","m","m","a","r","y">>, <<"e","p","i","c"," ","s","u","m","m","a","r","y">>, <<"p","a","r","e","n","t"," ","t","i","t","l","e">>>>],
      [field |-> "team",
       names |-> <<<<"c","u","s","t","o","m"," ","f","i","e","l","d"," ","(","t","e","a","m"," ","(","m","i","g","r","a","t","e","d",")",")">>, <<"t","e","a","m"," ","(","m","i","g","r","a","t","e","d",")">>, <<"t","e","a","m">>,
                   <<"c","u","s","t","o","m"," ","f","i","e","l","d"," ","(","t","e","a","m",")">>>>],
      [field |-> "storyPoints",
       names |-> <<<<"s","t","o","r","y"," ","p","o","i","n","t","s">>, <<"p","o","i","n","t","s">>, <<"e","s","t","i","m","a","t","e">>, <<"s","t","o","r","y"," ","p","o","i","n","t"," ","e","s","t","i","m","a","t","e">>>>],
      [field |-> "created", names |-> <<<<"c","r","e","a","t","e","d">>, <<"c","r","e","a","t","i","o","n"," ","d","a","t","e">>, <<"d","a","t","e"," ","c","r","e","a","t","e","d">>>>],
      [field |-> "resolved",
       names |-> <<<<"r","e","s","o","l","v","e","d">>, <<"r","e","s","o","l","u","t","i","o","n"," ","d","a","t","e">>, <<"d","a","t","e"," ","r","e","s","o","l","v","e","d">>, <<"c","l","o","s","e","d">>>>],
      [field |-> "sprints", names |-> <<<<"s","p","r","i","n","t">>, <<"s","p","r","i","n","t","s">>, <<"s","p","r","i","n","t"," ","n","a","m","e">>>>],
      [field |-> "originTicketType",
       names |-> <<<<"o","r","i","g","i","n"," ","t","i","c","k","e","t"," ","t","y","p","e">>, <<"o","r","i","g","i","n"," ","t","y","p","e">>, <<"o","r","i","g","i","n","a","l"," ","t","y","p","e">>>>]>>

\* The mutated list of required fields: created is not required
requiredFieldsWithoutCreated == <<"key", "summary", "issueType", "status">>

requiredFields == <<"key", "summary", "issueType", "status", "created">>

\* possibleNames.some(name => header.includes(name))
HeaderMatches(header, possibleNames) ==
    \E n \in DOMAIN possibleNames : Includes(header, possibleNames[n])

\* headers.findIndex(...): the first matching header, 0 when there is none (-1);
\* FindIndexLast is the mutated search that takes the last matching header
FindIndexLast(headers, possibleNames) ==
    LET hits == {i \in DOMAIN headers : HeaderMatches(headers[i], possibleNames)}
    IN  IF hits = {} THEN 0 ELSE CHOOSE i \in hits : \A j \in hits : i >= j

FindIndex(headers, possibleNames) ==
    LET hits == {i \in DOMAIN headers : HeaderMatches(headers[i], possibleNames)}
    IN  IF hits = {} THEN 0 ELSE SetMin(hits)

\* The mapping built by the loop over COLUMN_MAPPINGS: a function on the mapped fields
MappingOf(headers, columnMappings) ==
    LET columnIndex == [m \in DOMAIN columnMappings |->
                           FindIndex(headers, columnMappings[m].names)]
        found == {m \in DOMAIN columnMappings : columnIndex[m] # 0}
    IN  [f \in {columnMappings[m].field : m \in found} |->
            columnIndex[CHOOSE m \in found : columnMappings[m].field = f]]

\* createColumnMapping: ok with the mapping, or the error naming the missing fields
MappingResult(mapping) ==
    LET NotMapped(field) == field \notin DOMAIN mapping
        missingFields == SelectSeq(requiredFields, NotMapped)
    IN  IF Len(missingFields) > 0
        THEN [ok |-> FALSE, error |-> "Required columns not found",
              missingFields |-> missingFields, mapping |-> mapping]
        ELSE [ok |-> TRUE, error |-> "", missingFields |-> <<>>, mapping |-> mapping]

createColumnMapping(headers) == MappingResult(MappingOf(headers, COLUMN_MAPPINGS))

\* parseTicketsFromRows: headerRow.map(header => String(header).toLowerCase().trim())
NormalizeHeaders(cells) == [i \in DOMAIN cells |-> Trim(ToLowerCase(cells[i]))]

-----------------------------------------------------------------------------
(* XLSXParserService: the row normalizer of the main thread                *)
(* A grid is the array sheet_to_json returns with raw: false and defval '': *)
(* rows of strings, the header row first.                                  *)

DigitValue(c) == CharCode(c) - CharCode("0")

IsDigits(s) == s # <<>> /\ \A i \in DOMAIN s : s[i] \in DigitChars

RECURSIVE DecimalValue(_)
DecimalValue(s) ==
    IF s = <<>> THEN 0 ELSE 10 * DecimalValue(SubSeq(s, 1, Len(s) - 1)) + DigitValue(s[Len(s)])

\* Number(string) for the cells of the grids, which hold integer literals or text
\* without digits: None is NaN
ToNumber(s) ==
    LET t == Trim(s)
    IN  IF t = <<>> THEN Some(0)
        ELSE IF IsDigits(t) THEN Some(DecimalValue(t))
        ELSE IF Head(t) = "-" /\ IsDigits(Tail(t)) THEN Some(-DecimalValue(Tail(t)))
        ELSE None

\* new Date(string).getTime() for the cells of the grids, which hold ISO dates of
\* January 2024 or text no date parser accepts: None is NaN, and an instant is the
\* number of milliseconds since 2024-01-01T00:00:00Z
DateOfString(s) ==
    IF /\ Len(s) = 10
       /\ SubSeq(s, 1, 8) = <<"2","0","2","4","-","0","1","-">>
       /\ IsDigits(SubSeq(s, 9, 10))
       /\ DecimalValue(SubSeq(s, 9, 10)) \in 1..31
    THEN Some((DecimalValue(SubSeq(s, 9, 10)) - 1) * DayMs)
    ELSE None

\* JIRA_KEY_PATTERN.test(key): /^[A-Z]+-\d+$/
JIRA_KEY_PATTERN(key) ==
    \E k \in 1..(Len(key) - 2) :
        /\ \A i \in 1..k : key[i] \in UpperChars
        /\ key[k + 1] = "-"
        /\ IsDigits(SubSeq(key, k + 2, Len(key)))

\* getValue: the cell of the field's column, None (undefined) when the field is not
\* mapped or the row is too short
getValue(row, columnMapping, field) ==
    IF field \in DOMAIN columnMapping /\ columnMapping[field] <= Len(row)
    THEN Some(row[columnMapping[field]])
    ELSE None

\* The mutated parseString: the cell is not trimmed
parseStringUntrimmed(value) ==
    IF ~IsSome(value) \/ Get(value) = <<>> THEN None ELSE Some(Get(value))

parseString(value) ==
    IF ~IsSome(value) \/ Get(value) = <<>> THEN None ELSE Some(Trim(Get(value)))

parseNumber(value) ==
    IF ~IsSome(value) \/ Get(value) = <<>> THEN None ELSE ToNumber(Get(value))

\* XLSXParserService.parseDate: the ISO string of the instant, None when the cell is
\* empty or does not parse
XLSXParserService_parseDate(value) ==
    IF ~IsSome(value) \/ Get(value) = <<>> THEN None
    ELSE IF IsSome(DateOfString(Get(value))) THEN Some(IsoString(Get(DateOfString(Get(value)))))
    ELSE None

NonEmpty(s) == Len(s) > 0

\* sprintStr.split(sep).map(s => s.trim()).filter(s => s.length > 0)
SplitTrimmed(sprintStr, sep) ==
    LET parts == Split(sprintStr, sep)
    IN  SelectSeq([i \in DOMAIN parts |-> Trim(parts[i])], NonEmpty)

\* The text of a name=... match up to the next ',' or ']'
RECURSIVE NameValue(_)
NameValue(s) ==
    IF s = <<>> \/ Head(s) \in {",", "]"} THEN <<>> ELSE <<Head(s)>> \o NameValue(Tail(s))

\* sprintStr.match(/name=([^,\]]+)/g).map(match => match.replace('name=', '').trim())
RECURSIVE NameMatches(_)
NameMatches(s) ==
    IF Len(s) < 6 THEN <<>>
    ELSE IF SubSeq(s, 1, 5) = <<"n","a","m","e","=">> /\ NameValue(SubSeq(s, 6, Len(s))) # <<>>
    THEN LET v == NameValue(SubSeq(s, 6, Len(s)))
         IN  <<Trim(v)>> \o NameMatches(SubSeq(s, 6 + Len(v), Len(s)))
    ELSE NameMatches(Tail(s))

parseSprints(value) ==
    IF ~IsSome(value) \/ Get(value) = <<>> THEN <<>>
    ELSE LET sprintStr == Get(value)
         IN  IF Includes(sprintStr, <<",">>) THEN SplitTrimmed(sprintStr, ",")
             ELSE IF Includes(sprintStr, <<";">>) THEN SplitTrimmed(sprintStr, ";")
             ELSE IF Includes(sprintStr, <<"|">>) THEN SplitTrimmed(sprintStr, "|")
             ELSE IF NameMatches(sprintStr) # <<>> THEN NameMatches(sprintStr)
             ELSE <<Trim(sprintStr)>>

isEmptyRow(row) == \A i \in DOMAIN row : Trim(row[i]) = <<>>

\* An optional string that is added to the ticket only if it has a value
IfTruthy(o) == IF Truthy(o) THEN o ELSE None

\* parseTicketFromRow: None is the null of a row without the required fields
parseTicketFromRow(row, columnMapping) ==
    IF Len(row) = 0 THEN None
    ELSE LET key == parseString(getValue(row, columnMapping, "key"))
             summary == parseString(getValue(row, columnMapping, "summary"))
             issueType == parseString(getValue(row, columnMapping, "issueType"))
             status == parseString(getValue(row, columnMapping, "status"))
             created == XLSXParserService_parseDate(getValue(row, columnMapping, "created"))
         IN  IF \/ ~Truthy(key) \/ ~Truthy(summary) \/ ~Truthy(issueType)
                \/ ~Truthy(status) \/ ~IsSome(created)
             THEN None
             ELSE Some([key |-> Get(key),
                        summary |-> Get(summary),
                        issueType |-> Get(issueType),
                        status |-> Get(status),
                        created |-> Get(created),
                        sprints |-> parseSprints(getValue(row, columnMapping, "sprints")),
                        parent |-> IfTruthy(parseString(getValue(row, columnMapping, "parent"))),
                        parentKey |->
                            IfTruthy(parseString(getValue(row, columnMapping, "parentKey"))),
                        parentSummary |->
                            IfTruthy(parseString(getValue(row, columnMapping, "parentSummary"))),
                        team |-> IfTruthy(parseString(getValue(row, columnMapping, "team"))),
                        storyPoints |-> parseNumber(getValue(row, columnMapping, "storyPoints")),
                        resolved |->
                            XLSXParserService_parseDate(getValue(row, columnMapping, "resolved")),
                        originTicketType |->
                            IfTruthy(parseString(getValue(row, columnMapping,
                                                          "originTicketType")))])

\* The loop over the data rows: empty rows and rows without a ticket are skipped
RECURSIVE ParseRows(_, _)
ParseRows(dataRows, columnMapping) ==
    IF dataRows = <<>> THEN <<>>
    ELSE (IF isEmptyRow(Head(dataRows)) THEN <<>>
          ELSE parseTicketFromRow(Head(dataRows), columnMapping))
         \o ParseRows(Tail(dataRows), columnMapping)

Failure(error) == [ok |-> FALSE, error |-> error, tickets |-> <<>>]
Success(tickets) == [ok |-> TRUE, error |-> "", tickets |-> tickets]

\* The mutated normalizer: the header row is resolved before the rows are counted
parseTicketsFromRowsMappingFirst(grid) ==
    IF Len(grid) = 0
    THEN Failure("File must contain at least a header row and one data row")
    ELSE LET columnMapping == createColumnMapping(NormalizeHeaders(grid[1]))
         IN  IF ~columnMapping.ok THEN Failure(columnMapping.error)
             ELSE IF Len(grid) < 2
             THEN Failure("File must contain at least a header row and one data row")
             ELSE LET tickets == ParseRows(Tail(grid), columnMapping.mapping)
                  IN  IF Len(tickets) = 0 THEN Failure("No valid tickets found in the file")
                      ELSE Success(tickets)

parseTicketsFromRows(grid) ==
    IF Len(grid) < 2
    THEN Failure("File must contain at least a header row and one data row")
    ELSE LET columnMapping == createColumnMapping(NormalizeHeaders(grid[1]))
         IN  IF ~columnMapping.ok THEN Failure(columnMapping.error)
             ELSE LET tickets == ParseRows(Tail(grid), columnMapping.mapping)
                  IN  IF Len(tickets) = 0 THEN Failure("No valid tickets found in the file")
                      ELSE Success(tickets)

\* extractMetadata: the sorted project keys and the export instant
extractMetadata(tickets, now) ==
    [exportDate |-> IsoString(now),
     projectKeys |-> SortStrings({Split(tickets[i].key, "-")[1] : i \in DOMAIN tickets}
                                 \ {<<>>})]

-----------------------------------------------------------------------------
(* DataValidator                                                           *)

\* validateTicket(ticket).isValid for a ticket of the row normalizer, whose required
\* fields are present and whose dates are ISO strings: the key matches the pattern
\* and the story points, if any, are not negative
validateTicket(ticket) ==
    /\ ticket.key # <<>> /\ ticket.summary # <<>> /\ ticket.issueType # <<>>
    /\ ticket.status # <<>> /\ ticket.created.kind # "empty"
    /\ JIRA_KEY_PATTERN(ticket.key)
    /\ (IsSome(ticket.storyPoints) => Get(ticket.storyPoints) >= 0)
    /\ ticket.created.kind = "iso"
    /\ (IsSome(ticket.resolved) => Get(ticket.resolved).kind \in {"iso", "empty"})

\* validateRawData(data).isValid: every ticket is valid (the metadata is an object)
validateRawData(data) == \A i \in DOMAIN data.tickets : validateTicket(data.tickets[i])

ParseFailure(error) == [ok |-> FALSE, error |-> error, tickets |-> <<>>, metadata |-> None]

\* parseFile on a file that passes validateFileFormat and whose first sheet is grid
parseFile(grid, now) ==
    IF Len(grid) = 0 THEN ParseFailure("No data found in the file")
    ELSE LET parsed == parseTicketsFromRows(grid)
         IN  IF ~parsed.ok THEN ParseFailure(parsed.error)
             ELSE LET result == [tickets |-> parsed.tickets,
                                 metadata |-> extractMetadata(parsed.tickets, now)]
                  IN  IF ~validateRawData(result) THEN ParseFailure("Data validation failed")
                      ELSE [ok |-> TRUE, error |-> "", tickets |-> result.tickets,
                            metadata |-> Some(result.metadata)]

-----------------------------------------------------------------------------
(* XLSXParserService: the checks on the file                                *)

SUPPORTED_EXTENSIONS == <<<<".","x","l","s","x">>, <<".","x","l","s">>, <<".","c","s","v">>>>
MAX_FILE_SIZE == 50 * 1024 * 1024

FileTooLarge == "File size exceeds maximum limit of 50MB"
InvalidFormat == "Invalid file format. Please upload a valid XLSX or CSV file."

validMimeTypes ==
    {"application/vnd.openxmlformats-officedocument.spreadsheetml.sheet",
     "application/vnd.ms-excel", "application/octet-stream", "text/csv",
     "application/csv", "text/plain"}

\* String.prototype.endsWith
EndsWith(s, suffix) ==
    Len(suffix) <= Len(s) /\ SubSeq(s, Len(s) - Len(suffix) + 1, Len(s)) = suffix

\* validateFileFormat: the error it throws (None if it returns) and the value it returns
validateFileFormat(file) ==
    IF ~IsSome(file) THEN [thrown |-> None, valid |-> FALSE]
    ELSE IF Get(file).size > MAX_FILE_SIZE
         THEN [thrown |-> Some(FileTooLarge), valid |-> FALSE]
         ELSE LET fileName == ToLowerCase(Get(file).name)
                  hasValidExtension ==
                      \E i \in DOMAIN SUPPORTED_EXTENSIONS :
                          EndsWith(fileName, SUPPORTED_EXTENSIONS[i])
              IN  IF ~hasValidExtension THEN [thrown |-> None, valid |-> FALSE]
                  ELSE [thrown |-> None,
                        valid |-> Get(file).type \in validMimeTypes \/ Get(file).type = ""]

\* parseFile on a file whose first sheet is grid: the checks of the file, then the
\* reading and parsing of its content
XLSXParserService_parseFile(file, grid, now) ==
    LET checked == validateFileFormat(file)
    IN  IF IsSome(checked.thrown) THEN ParseFailure(Get(checked.thrown))
        ELSE IF ~checked.valid THEN ParseFailure(InvalidFormat)
             ELSE parseFile(grid, now)

-----------------------------------------------------------------------------
(* XLSXParserService: the CSV reader                                        *)

Quote == "\""

\* The mutated scanner step: a quote always toggles the flag (no escaped quote)
IsEscapedQuoteNever(line, i, inQuotes) == FALSE

\* parseCSVRow: inQuotes && nextChar === '"'
IsEscapedQuote(line, i, inQuotes) ==
    inQuotes /\ i + 1 <= Len(line) /\ line[i + 1] = Quote

\* parseCSVRow: the while loop from index i (1-based) on
RECURSIVE ScanCSVRow(_, _, _, _, _)
ScanCSVRow(line, i, current, inQuotes, result) ==
    IF i > Len(line) THEN Append(result, Trim(current))
    ELSE IF line[i] = Quote
         THEN IF IsEscapedQuote(line, i, inQuotes)
              THEN ScanCSVRow(line, i + 2, Append(current, Quote), inQuotes, result)
              ELSE ScanCSVRow(line, i + 1, current, ~inQuotes, result)
         ELSE IF line[i] = "," /\ ~inQuotes
              THEN ScanCSVRow(line, i + 1, <<>>, inQuotes, Append(result, Trim(current)))
              ELSE ScanCSVRow(line, i + 1, Append(current, line[i]), inQuotes, result)

parseCSVRow(line) == ScanCSVRow(line, 1, <<>>, FALSE, <<>>)

\* String.prototype.split(/\r?\n/)
RECURSIVE SplitLinesFrom(_, _, _, _)
SplitLinesFrom(text, i, current, lines) ==
    IF i > Len(text) THEN Append(lines, current)
    ELSE IF text[i] = "\r" /\ i + 1 <= Len(text) /\ text[i + 1] = "\n"
         THEN SplitLinesFrom(text, i + 2, <<>>, Append(lines, current))
         ELSE IF text[i] = "\n"
              THEN SplitLinesFrom(text, i + 1, <<>>, Append(lines, current))
              ELSE SplitLinesFrom(text, i + 1, Append(current, text[i]), lines)

SplitLines(text) == SplitLinesFrom(text, 1, <<>>, <<>>)

\* parseCSVText: the loop over the lines
RECURSIVE ParseCSVLines(_, _)
ParseCSVLines(lines, rows) ==
    IF lines = <<>> THEN rows
    ELSE IF Trim(Head(lines)) = <<>> THEN ParseCSVLines(Tail(lines), rows)
         ELSE LET row == parseCSVRow(Head(lines))
              IN  ParseCSVLines(Tail(lines), IF Len(row) > 0 THEN Append(rows, row) ELSE rows)

parseCSVText(text) == ParseCSVLines(SplitLines(text), <<>>)

-----------------------------------------------------------------------------
(* dataProcessor.worker.js: the worker's own parser and transformer        *)

worker_columnMappings ==
    <<[field |-> "key", names |-> <<<<"k","e","y">>, <<"i","s","s","u","e"," ","k","e","y">>, <<"t","i","c","k","e","t"," ","k","e","y">>, <<"i","d">>>>],
      [field |-> "summary", names |-> <<<<"s","u","m","m","a","r","y">>, <<"t","i","t","l","e">>, <<"d","e","s","c","r","i","p","t","i","o","n">>>>],
      [field |-> "issueType", names |-> <<<<"i","s","s","u","e"," ","t","y","p","e">>, <<"t","y","p","e">>, <<"i","s","s","u","e","t","y","p","e">>>>],
      [field |-> "status", names |-> <<<<"s","t","a","t","u","s">>, <<"s","t","a","t","e">>>>],
      [field |-> "parent", names |-> <<<<"p","a","r","e","n","t">>, <<"e","p","i","c"," ","l","i","n","k">>, <<"e","p","i","c">>, <<"p","a","r","e","n","t"," ","k","e","y">>>>],
      [field |-> "storyPoints",
       names |-> <<<<"s","t","o","r","y"," ","p","o","i","n","t","s">>, <<"p","o","i","n","t","s">>, <<"e","s","t","i","m","a","t","e">>, <<"s","t","o","r","y"," ","p","o","i","n","t"," ","e","s","t","i","m","a","t","e">>>>],
      [field |-> "created", names |-> <<<<"c","r","e","a","t","e","d">>, <<"c","r","e","a","t","i","o","n"," ","d","a","t","e">>, <<"d","a","t","e"," ","c","r","e","a","t","e","d">>>>],
      [field |-> "resolved",
       names |-> <<<<"r","e","s","o","l","v","e","d">>, <<"r","e","s","o","l","u","t","i","o","n"," ","d","a","t","e">>, <<"d","a","t","e"," ","r","e","s","o","l","v","e","d">>, <<"c","l","o","s","e","d">>>>],
      [field |-> "sprints", names |-> <<<<"s","p","r","i","n","t">>, <<"s","p","r","i","n","t","s">>, <<"s","p","r","i","n","t"," ","n","a","m","e">>>>],
      [field |-> "originTicketType",
       names |-> <<<<"o","r","i","g","i","n"," ","t","i","c","k","e","t"," ","t","y","p","e">>, <<"o","r","i","g","i","n"," ","t","y","p","e">>, <<"o","r","i","g","i","n","a","l"," ","t","y","p","e">>>>]>>

worker_createColumnMapping(headers) == MappingResult(MappingOf(headers, worker_columnMappings))

worker_parseString(value) ==
    IF ~IsSome(value) \/ Get(value) = <<>> THEN None ELSE Some(Trim(Get(value)))

worker_parseNumber(value) ==
    IF ~IsSome(value) \/ Get(value) = <<>> THEN None ELSE ToNumber(Get(value))

worker_parseDate(value) ==
    IF ~IsSome(value) \/ Get(value) = <<>> THEN None
    ELSE IF IsSome(DateOfString(Get(value))) THEN Some(IsoString(Get(DateOfString(Get(value)))))
    ELSE None

\* The worker splits on commas or semicolons only
worker_parseSprints(value) ==
    IF ~IsSome(value) \/ Get(value) = <<>> THEN <<>>
    ELSE LET sprintStr == Get(value)
         IN  IF Includes(sprintStr, <<",">>) THEN SplitTrimmed(sprintStr, ",")
             ELSE IF Includes(sprintStr, <<";">>) THEN SplitTrimmed(sprintStr, ";")
             ELSE <<Trim(sprintStr)>>

worker_isEmptyRow(row) == \A i \in DOMAIN row : Trim(row[i]) = <<>>

worker_parseTicketFromRow(row, columnMapping) ==
    LET key == worker_parseString(getValue(row, columnMapping, "key"))
        summary == worker_parseString(getValue(row, columnMapping, "summary"))
        issueType == worker_parseString(getValue(row, columnMapping, "issueType"))
        status == worker_parseString(getValue(row, columnMapping, "status"))
        created == worker_parseDate(getValue(row, columnMapping, "created"))
    IN  IF \/ ~Truthy(key) \/ ~Truthy(summary) \/ ~Truthy(issueType)
           \/ ~Truthy(status) \/ ~IsSome(created)
        THEN None
        ELSE Some([key |-> Get(key),
                   summary |-> Get(summary),
                   issueType |-> Get(issueType),
                   status |-> Get(status),
                   created |-> Get(created),
                   sprints |-> worker_parseSprints(getValue(row, columnMapping, "sprints")),
                   parent |-> IfTruthy(worker_parseString(getValue(row, columnMapping, "parent"))),
                   storyPoints |->
                       worker_parseNumber(getValue(row, columnMapping, "storyPoints")),
                   resolved |-> worker_parseDate(getValue(row, columnMapping, "resolved")),
                   originTicketType |->
                       IfTruthy(worker_parseString(getValue(row, columnMapping,
                                                            "originTicketType")))])

RECURSIVE worker_ParseRows(_, _)
worker_ParseRows(dataRows, columnMapping) ==
    IF dataRows = <<>> THEN <<>>
    ELSE (IF worker_isEmptyRow(Head(dataRows)) THEN <<>>
          ELSE worker_parseTicketFromRow(Head(dataRows), columnMapping))
         \o worker_ParseRows(Tail(dataRows), columnMapping)

worker_parseTicketsFromRows(grid) ==
    IF Len(grid) < 2
    THEN Failure("File must contain at least a header row and one data row")
    ELSE LET columnMapping == worker_createColumnMapping(NormalizeHeaders(grid[1]))
         IN  IF ~columnMapping.ok THEN Failure(columnMapping.error)
             ELSE LET tickets == worker_ParseRows(Tail(grid), columnMapping.mapping)
                  IN  IF Len(tickets) = 0 THEN Failure("No valid tickets found in the file")
                      ELSE Success(tickets)

worker_extractMetadata(tickets, now) ==
    [exportDate |-> IsoString(now),
     projectKeys |-> SortStrings({Split(tickets[i].key, "-")[1] : i \in DOMAIN tickets}
                                 \ {<<>>})]

\* A message the worker posts
\* The mutated PROGRESS message: the percentage counts down
ProgressCountdown(id, progress, stage) ==
    [id |-> id, type |-> "PROGRESS", progress |-> 100 - progress, stage |-> stage,
     data |-> None, error |-> ""]

Progress(id, progress, stage) ==
    [id |-> id, type |-> "PROGRESS", progress |-> progress, stage |-> stage,
     data |-> None, error |-> ""]
Complete(id, type, data) ==
    [id |-> id, type |-> type, progress |-> 0, stage |-> "", data |-> Some(data),
     error |-> ""]
\* The mutated ERROR message: posted without the id of the request
ErrorMessageWithoutId(id, error) ==
    [id |-> "", type |-> "ERROR", progress |-> 0, stage |-> "", data |-> None,
     error |-> error]

ErrorMessage(id, error) ==
    [id |-> id, type |-> "ERROR", progress |-> 0, stage |-> "", data |-> None,
     error |-> error]

\* onmessage for PARSE_XLSX with the workbook whose first sheet is grid: the messages
\* handleFileParsing posts, followed by the ERROR of the catch block if it throws
handleFileParsing(grid, id, now) ==
    LET started == <<Progress(id, 10, "parsing"), Progress(id, 30, "parsing"),
                     Progress(id, 60, "parsing")>>
    IN  IF Len(grid) = 0
        THEN Append(started, ErrorMessage(id, "No data found in the file"))
        ELSE LET parsed == worker_parseTicketsFromRows(grid)
             IN  IF ~parsed.ok THEN Append(started, ErrorMessage(id, parsed.error))
                 ELSE started \o
                      <<Progress(id, 90, "parsing"),
                        Complete(id, "PARSE_XLSX_COMPLETE",
                                 [tickets |-> parsed.tickets,
                                  metadata |-> worker_extractMetadata(parsed.tickets, now)])>>

worker_calculateDuration(createdDate, resolvedDate) ==
    IF ~IsSome(resolvedDate) THEN None
    ELSE LET diffInMs == Get(resolvedDate) - createdDate
         IN  Some(Max(0, CeilDiv(diffInMs, DayMs)))

isEscapedBugTicket(rawTicket) ==
    IF ToLowerCase(rawTicket.issueType) # <<"b","u","g">> THEN FALSE
    ELSE IF ~Truthy(rawTicket.originTicketType) THEN FALSE
    ELSE LET originType == ToLowerCase(Get(rawTicket.originTicketType))
         IN  \E i \in DOMAIN escapedBugIndicators : Includes(originType, escapedBugIndicators[i])

\* The worker's transformTickets: one ticket per raw ticket, sprintCount the length of
\* the sprint list and storyPoints || 0
worker_transformTickets(rawTickets) ==
    [i \in DOMAIN rawTickets |->
        LET rawTicket == rawTickets[i]
            createdDate == rawTicket.created.ms
            resolvedDate == IF IsSome(rawTicket.resolved)
                            THEN Some(Get(rawTicket.resolved).ms) ELSE None
        IN  [key |-> rawTicket.key,
             summary |-> rawTicket.summary,
             issueType |-> rawTicket.issueType,
             status |-> rawTicket.status,
             parent |-> rawTicket.parent,
             storyPoints |-> IF IsSome(rawTicket.storyPoints)
                             THEN Get(rawTicket.storyPoints) ELSE 0,
             createdDate |-> createdDate,
             resolvedDate |-> resolvedDate,
             duration |-> worker_calculateDuration(createdDate, resolvedDate),
             sprintCount |-> Len(rawTicket.sprints),
             isEscapedBug |-> isEscapedBugTicket(rawTicket),
             summaryLength |-> Len(rawTicket.summary)]]

\* findEpicName: the summary of the first epic ticket with that key, None for null
findEpicName(epicKey, rawTickets) ==
    LET hits == {i \in DOMAIN rawTickets :
                    /\ rawTickets[i].key = epicKey
                    /\ ToLowerCase(rawTickets[i].issueType) = <<"e","p","i","c">>}
    IN  IF hits = {} THEN None ELSE Some(rawTickets[SetMin(hits)].summary)

worker_isTicketCompleted(status) ==
    ToLowerCase(status) \in {<<"d","o","n","e">>, <<"c","l","o","s","e","d">>, <<"r","e","s","o","l","v","e","d">>}

\* The first loop: an entry for every parent and for every epic ticket
RECURSIVE worker_InitializeEpics(_, _, _)
worker_InitializeEpics(processedTickets, rawTickets, epicMap) ==
    IF processedTickets = <<>> THEN epicMap
    ELSE LET ticket == Head(processedTickets)
             m1 == IF Truthy(ticket.parent) /\ ~MapHas(epicMap, Get(ticket.parent))
                   THEN Append(epicMap,
                               NewEpic(Get(ticket.parent),
                                       IF IsSome(findEpicName(Get(ticket.parent), rawTickets))
                                       THEN Get(findEpicName(Get(ticket.parent), rawTickets))
                                       ELSE Get(ticket.parent)))
                   ELSE epicMap
             m2 == IF ToLowerCase(ticket.issueType) = <<"e","p","i","c">> /\ ~MapHas(m1, ticket.key)
                   THEN Append(m1, NewEpic(ticket.key, ticket.summary))
                   ELSE m1
         IN  worker_InitializeEpics(Tail(processedTickets), rawTickets, m2)

\* The second loop: count every ticket into the entry of its parent
RECURSIVE worker_AggregateTickets(_, _)
worker_AggregateTickets(processedTickets, epicMap) ==
    IF processedTickets = <<>> THEN epicMap
    ELSE LET ticket == Head(processedTickets)
         IN  worker_AggregateTickets(Tail(processedTickets),
                 IF Truthy(ticket.parent) /\ MapHas(epicMap, Get(ticket.parent))
                 THEN LET i == MapIndex(epicMap, Get(ticket.parent))
                          epic == epicMap[i]
                      IN  [epicMap EXCEPT ![i] =
                              [epic EXCEPT
                                  !.ticketCount = @ + 1,
                                  !.totalStoryPoints = @ + ticket.storyPoints,
                                  !.completedTickets =
                                      IF worker_isTicketCompleted(ticket.status)
                                      THEN @ + 1 ELSE @]]
                 ELSE epicMap)

worker_buildEpicAggregations(processedTickets, rawTickets) ==
    SelectSeq(worker_AggregateTickets(processedTickets,
                  worker_InitializeEpics(processedTickets, rawTickets, <<>>)),
              HasTickets)

RECURSIVE worker_DateRangeLoop(_, _, _)
worker_DateRangeLoop(processedTickets, startDate, endDate) ==
    IF processedTickets = <<>> THEN [start |-> startDate, end |-> endDate]
    ELSE LET ticket == Head(processedTickets)
             s1 == IF ticket.createdDate < startDate THEN ticket.createdDate ELSE startDate
             e1 == IF ticket.createdDate > endDate THEN ticket.createdDate ELSE endDate
             s2 == IF IsSome(ticket.resolvedDate) /\ Get(ticket.resolvedDate) < s1
                   THEN Get(ticket.resolvedDate) ELSE s1
             e2 == IF IsSome(ticket.resolvedDate) /\ Get(ticket.resolvedDate) > e1
                   THEN Get(ticket.resolvedDate) ELSE e1
         IN  worker_DateRangeLoop(Tail(processedTickets), s2, e2)

worker_calculateDateRange(processedTickets, now) ==
    IF processedTickets = <<>> THEN [start |-> now, end |-> now]
    ELSE worker_DateRangeLoop(processedTickets, processedTickets[1].createdDate,
                              processedTickets[1].createdDate)

\* onmessage for TRANSFORM_DATA: the messages handleDataTransformation posts
handleDataTransformation(data, id, now) ==
    LET processedTickets == worker_transformTickets(data.tickets)
    IN  <<Progress(id, 10, "transforming"), Progress(id, 50, "transforming"),
          Progress(id, 80, "transforming"),
          Complete(id, "TRANSFORM_DATA_COMPLETE",
                   [tickets |-> processedTickets,
                    epics |-> worker_buildEpicAggregations(processedTickets, data.tickets),
                    dateRange |-> worker_calculateDateRange(processedTickets, now)])>>

\* self.onmessage: the messages posted for one request {id, type, data}; data is None
\* for a TRANSFORM_DATA request without data (rawData.tickets then throws after the
\* first PROGRESS message)
UnknownMessageType(type) ==
    IF type = "PING" THEN "Unknown message type: PING" ELSE "Unknown message type"

worker_onmessage(request, now) ==
    IF request.type = "PARSE_XLSX" THEN handleFileParsing(Get(request.data), request.id, now)
    ELSE IF request.type = "TRANSFORM_DATA"
         THEN IF ~IsSome(request.data)
              THEN <<Progress(request.id, 10, "transforming"),
                     ErrorMessage(request.id,
                                  "Cannot read properties of undefined (reading 'tickets')")>>
              ELSE handleDataTransformation(Get(request.data), request.id, now)
         ELSE <<ErrorMessage(request.id, UnknownMessageType(request.type))>>

-----------------------------------------------------------------------------
(* Specification of the column resolution: createColumnMapping on a header row *)

MaxHeaders == 5

HeaderCells ==
    {<<"I","s","s","u","e"," ","k","e","y">>, <<"P","a","r","e","n","t"," ","s","u","m","m","a","r","y">>, <<"I","s","s","u","e"," ","T","y","p","e">>, <<" ","S","t","a","t","u","s">>, <<"C","r","e","a","t","e","d">>,
     <<"P","a","r","e","n","t"," ","k","e","y">>}

ColumnsInit ==
    /\ pc = "start"
    /\ \E n \in 0..MaxHeaders : headerRow \in [1..n -> HeaderCells]
    /\ columnMap = None
    /\ bugs = <<>>
    /\ monthlyTrends = <<>>
    /\ clock = 0
    /\ rawData = <<>>
    /\ processedData = None
    /\ bugInsights = None
    /\ sheet = <<>>
    /\ mainRaw = None
    /\ mainData = None
    /\ posted = <<>>
    /\ epicInsights = None
    /\ ticketInsights = None
    /\ achievements = None
    /\ improvementAreas = None
    /\ csvText = None
    /\ csvRows = None
    /\ uploadFile = None
    /\ workerSupported = None
    /\ appStage = None
    /\ appError = None
    /\ steps = None
    /\ inbox = None
    /\ handled = None
    /\ sprintCell = None
    /\ parsedSprints = None
    /\ callbacks = None
    /\ hookLog = None
    /\ appState = None
    /\ delivered = None
    /\ uiEvents = None
    /\ isDragOver = None
    /\ rendered = None

CreateColumnMapping ==
    /\ pc = "start"
    /\ columnMap' = Some(createColumnMapping(NormalizeHeaders(headerRow)))
    /\ pc' = "mapped"
    /\ UNCHANGED headerRow
    /\ UNCHANGED trendVars
    /\ UNCHANGED transformVars
    /\ UNCHANGED pipelineVars
    /\ UNCHANGED insightVars
    /\ UNCHANGED csvVars
    /\ UNCHANGED uploadVars
    /\ UNCHANGED workerVars
    /\ UNCHANGED sprintVars
    /\ UNCHANGED hookVars
    /\ UNCHANGED appVars
    /\ UNCHANGED renderVars

ColumnsNext == CreateColumnMapping

SpecColumns == ColumnsInit /\ [][ColumnsNext]_vars

Mapped == pc = "mapped" /\ Get(columnMap).ok
Mapping == Get(columnMap).mapping
Headers == NormalizeHeaders(headerRow)

\* The synonyms of a canonical field
NamesOf(field) ==
    COLUMN_MAPPINGS[CHOOSE m \in DOMAIN COLUMN_MAPPINGS : COLUMN_MAPPINGS[m].field = field].names
AllFields == {COLUMN_MAPPINGS[m].field : m \in DOMAIN COLUMN_MAPPINGS}

LeftmostMatch ==
    LET headers == Headers
        mapping == Mapping
    IN  \A f \in AllFields :
            LET names == NamesOf(f)
                hits == {i \in DOMAIN headers :
                            \E n \in DOMAIN names : Includes(headers[i], names[n])}
            IN  IF hits = {} THEN f \notin DOMAIN mapping
                ELSE /\ f \in DOMAIN mapping
                     /\ mapping[f] \in hits
                     /\ \A i \in hits : mapping[f] <= i

\* C5 (as stated): each canonical field is mapped to the leftmost header containing one
\* of its synonyms, and no header is assigned to more than one field
C5_LeftmostAndExclusive ==
    Mapped =>
        /\ LeftmostMatch
        /\ \A f, g \in DOMAIN Mapping : f # g => Mapping[f] # Mapping[g]

\* C5 (amended): each canonical field is mapped to the leftmost header containing one
\* of its synonyms as a substring, and a field none of whose synonyms occurs in any
\* header is left unmapped; the scans are independent, so one header may be assigned
\* to several fields
C5_LeftmostPerField == Mapped => LeftmostMatch

\* A resolved header row whose first header "Parent key" is assigned to the fields
\* key, parent and parentKey
C5_Witness ==
    /\ Mapped
    /\ {"parent", "parentKey"} \subseteq DOMAIN Mapping
    /\ Mapping["key"] = 1
    /\ Mapping["parent"] = 1
    /\ Mapping["parentKey"] = 1
    /\ Headers[1] = <<"p","a","r","e","n","t"," ","k","e","y">>
    /\ headerRow[1] = <<"P","a","r","e","n","t"," ","k","e","y">>

\* The fields none of whose synonyms occurs in any of the headers
Unresolved(headers, fields) ==
    {f \in fields : \A i \in DOMAIN headers : ~HeaderMatches(headers[i], NamesOf(f))}

\* C15: createColumnMapping fails, with the missing-columns error, iff one of
\* key, summary, issueType, status, created is unresolved; the error then lists
\* every unresolved required field once and no other field; unresolved optional
\* fields are left unmapped and do not make it fail
C15_MissingColumns ==
    pc = "mapped" =>
        LET outcome == Get(columnMap)
            headers == Headers
            required == {"key", "summary", "issueType", "status", "created"}
            unresolved == Unresolved(headers, required)
        IN  /\ ~outcome.ok <=> unresolved # {}
            /\ ~outcome.ok =>
                  /\ outcome.error = "Required columns not found"
                  /\ Range(outcome.missingFields) = unresolved
                  /\ Len(outcome.missingFields) = Cardinality(unresolved)
            /\ outcome.ok => outcome.missingFields = <<>>
            /\ \A f \in Unresolved(headers, AllFields \ required) :
                  f \notin DOMAIN outcome.mapping

\* A header row without an issue type and a created column but with a parent key
\* column: the error lists issueType and created, in this order
C15_Witness ==
    /\ pc = "mapped"
    /\ headerRow = <<<<"I","s","s","u","e"," ","k","e","y">>, <<"P","a","r","e","n","t"," ","s","u","m","m","a","r","y">>, <<" ","S","t","a","t","u","s">>, <<"P","a","r","e","n","t"," ","k","e","y">>>>
    /\ ~Get(columnMap).ok
    /\ Get(columnMap).missingFields = <<"issueType", "created">>
    /\ "parentKey" \in DOMAIN Get(columnMap).mapping
    /\ "sprints" \notin DOMAIN Get(columnMap).mapping

-----------------------------------------------------------------------------
(* Specification of the pipeline: PerformantApp.handleFileSelected on one   *)
(* sheet, once on the main thread (parseFile, then transformRawData) and    *)
(* once through the worker (PARSE_XLSX, then TRANSFORM_DATA)                *)

MaxRows == 2

PipelineHeader ==
    <<<<"I","s","s","u","e"," ","k","e","y">>, <<"S","u","m","m","a","r","y">>, <<"I","s","s","u","e"," ","T","y","p","e">>, <<"S","t","a","t","u","s">>, <<"C","r","e","a","t","e","d">>, <<"R","e","s","o","l","v","e","d">>,
      <<"S","t","o","r","y"," ","P","o","i","n","t","s">>, <<"S","p","r","i","n","t">>, <<"P","a","r","e","n","t"," ","k","e","y">>, <<"P","a","r","e","n","t"," ","s","u","m","m","a","r","y">>,
      <<"O","r","i","g","i","n"," ","t","i","c","k","e","t"," ","t","y","p","e">>>>

\* The same header row without a column for the creation date
UnresolvedHeader == [PipelineHeader EXCEPT ![5] = <<"U","p","d","a","t","e","d">>]

StoryRow ==
    <<<<"P","-","5">>, <<"e","f">>, <<"S","t","o","r","y">>, <<"O","p","e","n">>, <<"2","0","2","4","-","0","1","-","0","4">>, <<>>, <<>>, <<>>, <<>>, <<>>, <<>>>>

DataRows ==
    {<<<<"P","-","1">>, <<"E","p","i","c"," ","o","n","e">>, <<"E","p","i","c">>, <<"I","n"," ","P","r","o","g","r","e","s","s">>, <<"2","0","2","4","-","0","1","-","0","1">>, <<>>, <<>>, <<>>,
       <<>>, <<>>, <<>>>>,
     <<<<"P","-","2">>, <<"a","b">>, <<"S","t","o","r","y">>, <<"D","o","n","e">>, <<"2","0","2","4","-","0","1","-","0","2">>, <<"2","0","2","4","-","0","1","-","0","5">>, <<"3">>, <<"S","1">>,
       <<"P","-","1">>, <<"E","p","i","c"," ","o","n","e">>, <<>>>>,
     <<<<"P","-","3">>, <<"c","d">>, <<"S","t","o","r","y">>, <<"O","p","e","n">>, <<"2","0","2","4","-","0","1","-","0","3">>, <<>>, <<"5">>, <<"S","1",";","S","2">>,
       <<"P","-","1">>, <<>>, <<>>>>,
     <<<<"P","-","4">>, <<"b","u","g">>, <<"B","u","g">>, <<"C","l","o","s","e","d">>, <<"2","0","2","4","-","0","1","-","0","2">>, <<"2","0","2","4","-","0","1","-","0","3">>, <<>>, <<"S","1",",","S","1">>,
       <<>>, <<>>, <<"U","A","T">>>>,
     StoryRow,
     [StoryRow EXCEPT ![8] = <<"S","1","|","S","2">>],
     [StoryRow EXCEPT ![1] = <<"a","b","c","-","1">>],
     [StoryRow EXCEPT ![2] = <<>>],
     [StoryRow EXCEPT ![5] = <<"n","o","t"," ","a"," ","d","a","t","e">>],
     [StoryRow EXCEPT ![7] = <<"-","2">>],
     [StoryRow EXCEPT ![1] = <<" ","P","-","6"," ">>, ![2] = <<" ","g","h">>, ![3] = <<"T","a","s","k"," ">>, ![4] = <<" ","D","o","n","e"," ">>],
     [i \in 1..11 |-> IF i = 2 THEN <<" ">> ELSE <<>>],
     SubSeq(StoryRow, 1, 5)}

Sheets ==
    {<<header>> \o dataRows :
        header \in {PipelineHeader, UnresolvedHeader}, dataRows \in SeqsUpTo(DataRows, MaxRows)}

PipelineInit ==
    /\ pc = "start"
    /\ clock \in ClockValues
    /\ sheet \in Sheets
    /\ mainRaw = None
    /\ mainData = None
    /\ posted = <<>>
    /\ rawData = <<>>
    /\ processedData = None
    /\ bugInsights = None
    /\ bugs = <<>>
    /\ monthlyTrends = <<>>
    /\ headerRow = <<>>
    /\ columnMap = None
    /\ epicInsights = None
    /\ ticketInsights = None
    /\ achievements = None
    /\ improvementAreas = None
    /\ csvText = None
    /\ csvRows = None
    /\ uploadFile = None
    /\ workerSupported = None
    /\ appStage = None
    /\ appError = None
    /\ steps = None
    /\ inbox = None
    /\ handled = None
    /\ sprintCell = None
    /\ parsedSprints = None
    /\ callbacks = None
    /\ hookLog = None
    /\ appState = None
    /\ delivered = None
    /\ uiEvents = None
    /\ isDragOver = None
    /\ rendered = None

\* Main thread: xlsxParser.parseFile(file)
ParseFile ==
    /\ ~IsSome(mainRaw)
    /\ mainRaw' = Some(parseFile(sheet, clock))
    /\ UNCHANGED <<pc, sheet, mainData, posted>>
    /\ UNCHANGED trendVars
    /\ UNCHANGED transformVars
    /\ UNCHANGED columnVars
    /\ UNCHANGED insightVars
    /\ UNCHANGED csvVars
    /\ UNCHANGED uploadVars
    /\ UNCHANGED workerVars
    /\ UNCHANGED sprintVars
    /\ UNCHANGED hookVars
    /\ UNCHANGED appVars
    /\ UNCHANGED renderVars

\* Main thread: dataTransformer.transformRawData(rawData)
MainThreadTransform ==
    /\ IsSome(mainRaw)
    /\ Get(mainRaw).ok
    /\ ~IsSome(mainData)
    /\ mainData' = Some(transformRawData(Get(mainRaw).tickets, clock))
    /\ UNCHANGED <<pc, sheet, mainRaw, posted>>
    /\ UNCHANGED trendVars
    /\ UNCHANGED transformVars
    /\ UNCHANGED columnVars
    /\ UNCHANGED insightVars
    /\ UNCHANGED csvVars
    /\ UNCHANGED uploadVars
    /\ UNCHANGED workerVars
    /\ UNCHANGED sprintVars
    /\ UNCHANGED hookVars
    /\ UNCHANGED appVars
    /\ UNCHANGED renderVars

\* Worker: onmessage for the PARSE_XLSX request
WorkerParseXlsx ==
    /\ posted = <<>>
    /\ posted' = handleFileParsing(sheet, 1, clock)
    /\ UNCHANGED <<pc, sheet, mainRaw, mainData>>
    /\ UNCHANGED trendVars
    /\ UNCHANGED transformVars
    /\ UNCHANGED columnVars
    /\ UNCHANGED insightVars
    /\ UNCHANGED csvVars
    /\ UNCHANGED uploadVars
    /\ UNCHANGED workerVars
    /\ UNCHANGED sprintVars
    /\ UNCHANGED hookVars
    /\ UNCHANGED appVars
    /\ UNCHANGED renderVars

\* Worker: onmessage for the TRANSFORM_DATA request the callback of PARSE_XLSX sends
WorkerTransformData ==
    /\ posted # <<>>
    /\ posted[Len(posted)].type = "PARSE_XLSX_COMPLETE"
    /\ posted' = posted \o handleDataTransformation(Get(posted[Len(posted)].data), 2, clock)
    /\ UNCHANGED <<pc, sheet, mainRaw, mainData>>
    /\ UNCHANGED trendVars
    /\ UNCHANGED transformVars
    /\ UNCHANGED columnVars
    /\ UNCHANGED insightVars
    /\ UNCHANGED csvVars
    /\ UNCHANGED uploadVars
    /\ UNCHANGED workerVars
    /\ UNCHANGED sprintVars
    /\ UNCHANGED hookVars
    /\ UNCHANGED appVars
    /\ UNCHANGED renderVars

PipelineNext == ParseFile \/ MainThreadTransform \/ WorkerParseXlsx \/ WorkerTransformData

SpecPipeline == PipelineInit /\ [][PipelineNext]_vars

MainParsed == IsSome(mainRaw)
MainDone == IsSome(mainRaw) /\ (Get(mainRaw).ok => IsSome(mainData))
LastPosted == posted[Len(posted)]
WorkerDone == posted # <<>> /\ LastPosted.type \in {"ERROR", "TRANSFORM_DATA_COMPLETE"}
WorkerOk == LastPosted.type = "TRANSFORM_DATA_COMPLETE"
WorkerData == Get(LastPosted.data)

\* C2: for every sheet the worker strategy and the main-thread strategy give the same
\* result: both fail or both succeed, and then with the same tickets (key, sprintCount,
\* storyPoints, duration, isEscapedBug per ticket), the same groupings and the same
\* date range
C2_SameResult ==
    (MainDone /\ WorkerDone) =>
        /\ Get(mainRaw).ok = WorkerOk
        /\ WorkerOk =>
               LET m == Get(mainData)
                   w == WorkerData
               IN  /\ Len(m.tickets) = Len(w.tickets)
                   /\ \A i \in DOMAIN m.tickets :
                          /\ m.tickets[i].key = w.tickets[i].key
                          /\ m.tickets[i].sprintCount = w.tickets[i].sprintCount
                          /\ m.tickets[i].storyPoints = w.tickets[i].storyPoints
                          /\ m.tickets[i].duration = w.tickets[i].duration
                          /\ m.tickets[i].isEscapedBug = w.tickets[i].isEscapedBug
                   /\ Range(m.epics) = Range(w.epics)
                   /\ m.dateRange = w.dateRange

\* The trimmed cell of a field in a data row of a sheet with the pipeline header
PipelineMapping == createColumnMapping(NormalizeHeaders(PipelineHeader)).mapping

RowCell(row, field) ==
    LET v == getValue(row, PipelineMapping, field)
    IN  IF IsSome(v) THEN Trim(Get(v)) ELSE <<>>

\* A valid data row: the required cells are present, the created date parses, the key
\* matches the key pattern and the story points, if any, are a non-negative number
ValidRow(row) ==
    /\ JIRA_KEY_PATTERN(RowCell(row, "key"))
    /\ RowCell(row, "summary") # <<>>
    /\ RowCell(row, "issueType") # <<>>
    /\ RowCell(row, "status") # <<>>
    /\ IsSome(DateOfString(RowCell(row, "created")))
    /\ \/ RowCell(row, "storyPoints") = <<>>
       \/ /\ IsSome(ToNumber(RowCell(row, "storyPoints")))
          /\ Get(ToNumber(RowCell(row, "storyPoints"))) >= 0

ValidRows == SelectSeq(Tail(sheet), ValidRow)

\* C3: for every sheet whose header resolves and that holds at least one valid data
\* row, parseFile succeeds and returns exactly the valid rows, whatever the other rows
\* contain
C3_MalformedRowsSkipped ==
    (MainParsed /\ sheet[1] = PipelineHeader /\ Len(ValidRows) > 0) =>
        /\ Get(mainRaw).ok
        /\ Len(Get(mainRaw).tickets) = Len(ValidRows)
        /\ \A i \in DOMAIN ValidRows :
               Get(mainRaw).tickets[i].key = RowCell(ValidRows[i], "key")

\* C4: every ticket key of a successfully returned parse result matches
\* ^[A-Z]+-\d+$, on the main-thread path (parseFile) and on the worker path
\* (PARSE_XLSX) alike
C4_KeysConform ==
    /\ (MainParsed /\ Get(mainRaw).ok) =>
           \A i \in DOMAIN Get(mainRaw).tickets : JIRA_KEY_PATTERN(Get(mainRaw).tickets[i].key)
    /\ \A p \in DOMAIN posted :
           posted[p].type = "PARSE_XLSX_COMPLETE" =>
               \A i \in DOMAIN Get(posted[p].data).tickets :
                   JIRA_KEY_PATTERN(Get(posted[p].data).tickets[i].key)

InsufficientRows == "File must contain at least a header row and one data row"
MissingColumns == "Required columns not found"
NoValidRows == "No valid tickets found in the file"

\* The header row of the sheet resolves every required field
ResolvingHeaders ==
    {header \in {PipelineHeader, UnresolvedHeader} :
        Unresolved(NormalizeHeaders(header),
                   {"key", "summary", "issueType", "status", "created"}) = {}}

HeaderResolves == sheet[1] \in ResolvingHeaders

\* A data row that yields no ticket: all cells blank, or a required cell blank, or
\* a created cell that is no date
Dropped(row) ==
    \/ \A i \in DOMAIN row : Trim(row[i]) = <<>>
    \/ \E f \in {"key", "summary", "issueType", "status", "created"} : RowCell(row, f) = <<>>
    \/ ~IsSome(DateOfString(RowCell(row, "created")))

AllRowsDropped == \A i \in 2..Len(sheet) : Dropped(sheet[i])

\* The error of the worker's PARSE_XLSX request, None when it completed
WorkerParsed == Len(posted) >= 4
WorkerParseError == IF posted[4].type = "ERROR" THEN Some(posted[4].error) ELSE None

\* The precedence of the three errors for an outcome (None for success)
ErrorPrecedence(error) ==
    /\ Len(sheet) < 2 => error = Some(InsufficientRows)
    /\ (Len(sheet) >= 2 /\ ~HeaderResolves) => error = Some(MissingColumns)
    /\ error = Some(NoValidRows) <=> (Len(sheet) >= 2 /\ HeaderResolves /\ AllRowsDropped)

\* C16: the row normalizer, on the main thread and in the worker, fails with
\* InsufficientRows for a grid of fewer than 2 rows whatever its header, with
\* MissingColumns for a grid of at least 2 rows whose header leaves a required
\* field unresolved whatever its rows, and with NoValidRows iff the grid has at
\* least 2 rows, the header resolves and every data row is dropped
C16_ErrorPrecedence ==
    /\ MainParsed =>
           ErrorPrecedence(IF Get(mainRaw).ok THEN None ELSE Some(Get(mainRaw).error))
    /\ WorkerParsed => ErrorPrecedence(WorkerParseError)
    /\ parseTicketsFromRows(<<>>) = Failure(InsufficientRows)
    /\ worker_parseTicketsFromRows(<<>>) = Failure(InsufficientRows)

\* A resolved header and two data rows, one blank and one without a date: both
\* paths report NoValidRows
C16_Witness ==
    /\ MainParsed
    /\ WorkerParsed
    /\ Len(sheet) = 3
    /\ sheet[1] = PipelineHeader
    /\ \A i \in DOMAIN sheet[2] : Trim(sheet[2][i]) = <<>>
    /\ Len(sheet[3]) = 11
    /\ sheet[3][5] = <<"n","o","t"," ","a"," ","d","a","t","e">>
    /\ Get(mainRaw).error = NoValidRows
    /\ WorkerParseError = Some(NoValidRows)

\* A data row all of whose cells are empty or whitespace
BlankRow(row) == \A i \in DOMAIN row : Trim(row[i]) = <<>>
NotBlankRow(row) == ~BlankRow(row)

\* A data row with values for the five required fields: key, summary, issue type
\* and status are not blank and the created cell is a date
RequiredFieldsValid(row) ==
    /\ \A f \in {"key", "summary", "issueType", "status"} : RowCell(row, f) # <<>>
    /\ IsSome(DateOfString(RowCell(row, "created")))

\* The tickets the row normalizer followed by the transformer yields for the sheet
RoundTrip ==
    LET normalized == parseTicketsFromRows(sheet)
    IN  IF normalized.ok THEN transformTickets(normalized.tickets) ELSE <<>>

\* C14: for a sheet whose header resolves and whose data rows are blank or carry
\* values for the five required fields, the row normalizer followed by the
\* transformer yields one ticket per non-blank data row, in row order, with key,
\* summary, issueType and status equal to the trimmed cells; blank rows yield no
\* ticket (a sheet of blank rows only yields none: the normalizer reports
\* NoValidRows); when parseFile accepts the sheet these are the tickets of the
\* main-thread result
C14_RequiredFieldsRoundTrip ==
    (MainDone /\ HeaderResolves
     /\ \A i \in 2..Len(sheet) : BlankRow(sheet[i]) \/ RequiredFieldsValid(sheet[i])) =>
        LET kept == SelectSeq(Tail(sheet), NotBlankRow)
            tickets == RoundTrip
        IN  /\ Len(tickets) = Len(kept)
            /\ \A i \in DOMAIN kept :
                  /\ tickets[i].key = RowCell(kept[i], "key")
                  /\ tickets[i].summary = RowCell(kept[i], "summary")
                  /\ tickets[i].issueType = RowCell(kept[i], "issueType")
                  /\ tickets[i].status = RowCell(kept[i], "status")
            /\ Get(mainRaw).ok => Get(mainData).tickets = tickets

\* A blank row followed by a row with padded cells: one ticket, with the trimmed values
C14_Witness ==
    /\ MainDone
    /\ Get(mainRaw).ok
    /\ Len(sheet) = 3
    /\ sheet[1] = PipelineHeader
    /\ BlankRow(sheet[2])
    /\ sheet[2][2] = <<" ">>
    /\ sheet[3][1] = <<" ","P","-","6"," ">>
    /\ Len(Get(mainData).tickets) = 1
    /\ Get(mainData).tickets[1].key = <<"P","-","6">>
    /\ Get(mainData).tickets[1].summary = <<"g","h">>
    /\ Get(mainData).tickets[1].issueType = <<"T","a","s","k">>
    /\ Get(mainData).tickets[1].status = <<"D","o","n","e">>

-----------------------------------------------------------------------------
(* InsightsEngine: rankings, ticket extremes, achievements, improvements   *)

\* a.localeCompare(b) for keys of the form PREFIX-NUMBER: on upper-case letters,
\* digits and '-' the collation order is the code unit order
localeCompare(a, b) == IF a = b THEN 0 ELSE IF StrLess(a, b) THEN -1 ELSE 1

\* The comparator of rankEpicsByTicketCount; compareTicketCountNoTie is the mutated
\* comparator without the tie-breaker
compareTicketCountNoTie(a, b) == b.ticketCount - a.ticketCount

compareTicketCount(a, b) ==
    IF b.ticketCount # a.ticketCount THEN b.ticketCount - a.ticketCount
    ELSE localeCompare(a.key, b.key)

\* The comparator of rankEpicsByStoryPoints
compareStoryPoints(a, b) ==
    IF b.totalStoryPoints # a.totalStoryPoints THEN b.totalStoryPoints - a.totalStoryPoints
    ELSE localeCompare(a.key, b.key)

\* Array.prototype.sort (stable): e goes behind every element that does not sort after it
RECURSIVE InsertByTicketCount(_, _)
InsertByTicketCount(sorted, e) ==
    IF sorted = <<>> THEN <<e>>
    ELSE IF compareTicketCount(Head(sorted), e) <= 0
    THEN <<Head(sorted)>> \o InsertByTicketCount(Tail(sorted), e)
    ELSE <<e>> \o sorted

RECURSIVE SortByTicketCount(_)
SortByTicketCount(epics) ==
    IF epics = <<>> THEN <<>>
    ELSE InsertByTicketCount(SortByTicketCount(SubSeq(epics, 1, Len(epics) - 1)),
                             epics[Len(epics)])

RECURSIVE InsertByStoryPoints(_, _)
InsertByStoryPoints(sorted, e) ==
    IF sorted = <<>> THEN <<e>>
    ELSE IF compareStoryPoints(Head(sorted), e) <= 0
    THEN <<Head(sorted)>> \o InsertByStoryPoints(Tail(sorted), e)
    ELSE <<e>> \o sorted

RECURSIVE SortByStoryPoints(_)
SortByStoryPoints(epics) ==
    IF epics = <<>> THEN <<>>
    ELSE InsertByStoryPoints(SortByStoryPoints(SubSeq(epics, 1, Len(epics) - 1)),
                             epics[Len(epics)])

\* Array.prototype.slice(0, n)
Slice(s, n) == SubSeq(s, 1, IF Len(s) < n THEN Len(s) ELSE n)

rankEpicsByTicketCount(epics) == Slice(SortByTicketCount(epics), 3)

rankEpicsByStoryPoints(epics) == Slice(SortByStoryPoints(epics), 3)

generateEpicInsights(data) ==
    [topByTicketCount |-> rankEpicsByTicketCount(data.epics),
     topByStoryPoints |-> rankEpicsByStoryPoints(data.epics)]

\* tickets.reduce((max, current) => ...) of findTicketWithMostSprintChanges;
\* MostSprintChangesKeepFirst is the mutated reduction without the tie-breaker
RECURSIVE MostSprintChangesKeepFirst(_, _)
MostSprintChangesKeepFirst(max, tickets) ==
    IF tickets = <<>> THEN max
    ELSE LET current == Head(tickets)
         IN  MostSprintChangesKeepFirst(
                 IF current.sprintCount > max.sprintCount THEN current ELSE max,
                 Tail(tickets))

RECURSIVE MostSprintChanges(_, _)
MostSprintChanges(max, tickets) ==
    IF tickets = <<>> THEN max
    ELSE LET current == Head(tickets)
         IN  MostSprintChanges(
                 IF current.sprintCount > max.sprintCount THEN current
                 ELSE IF current.sprintCount = max.sprintCount
                 THEN (IF localeCompare(current.key, max.key) < 0 THEN current ELSE max)
                 ELSE max,
                 Tail(tickets))

\* A result or the Error thrown
Thrown(message) == [ok |-> FALSE, error |-> message, value |-> None]
Returned(value) == [ok |-> TRUE, error |-> "", value |-> Some(value)]

findTicketWithMostSprintChanges(tickets) ==
    IF Len(tickets) = 0 THEN Thrown("No tickets available for analysis")
    ELSE Returned(MostSprintChanges(Head(tickets), Tail(tickets)))

RECURSIVE LongestDuration(_, _)
LongestDuration(max, tickets) ==
    IF tickets = <<>> THEN max
    ELSE LET current == Head(tickets)
             maxDuration == Get(max.duration)
             currentDuration == Get(current.duration)
         IN  LongestDuration(
                 IF currentDuration > maxDuration THEN current
                 ELSE IF currentDuration = maxDuration
                 THEN (IF localeCompare(current.key, max.key) < 0 THEN current ELSE max)
                 ELSE max,
                 Tail(tickets))

\* findLongestDurationTicket: None is the null it returns
findLongestDurationTicket(tickets) ==
    LET ticketsWithDuration == SelectSeq(tickets, HasDuration)
    IN  IF Len(ticketsWithDuration) = 0 THEN None
        ELSE Some(LongestDuration(Head(ticketsWithDuration), Tail(ticketsWithDuration)))

RECURSIVE LongestSummary(_, _)
LongestSummary(max, tickets) ==
    IF tickets = <<>> THEN max
    ELSE LET current == Head(tickets)
         IN  LongestSummary(
                 IF current.summaryLength > max.summaryLength THEN current
                 ELSE IF current.summaryLength = max.summaryLength
                 THEN (IF localeCompare(current.key, max.key) < 0 THEN current ELSE max)
                 ELSE max,
                 Tail(tickets))

findLongestSummaryTicket(tickets) ==
    IF Len(tickets) = 0 THEN Thrown("No tickets available for analysis")
    ELSE Returned(LongestSummary(Head(tickets), Tail(tickets)))

RECURSIVE ShortestSummary(_, _)
ShortestSummary(min, tickets) ==
    IF tickets = <<>> THEN min
    ELSE LET current == Head(tickets)
         IN  ShortestSummary(
                 IF current.summaryLength < min.summaryLength THEN current
                 ELSE IF current.summaryLength = min.summaryLength
                 THEN (IF localeCompare(current.key, min.key) < 0 THEN current ELSE min)
                 ELSE min,
                 Tail(tickets))

findShortestSummaryTicket(tickets) ==
    IF Len(tickets) = 0 THEN Thrown("No tickets available for analysis")
    ELSE Returned(ShortestSummary(Head(tickets), Tail(tickets)))

\* date.toISOString().split('T')[0] and new Date(dateStr): the UTC day of an instant,
\* as the instant of its midnight
DayOf(instant) == (instant \div DayMs) * DayMs

\* The entries of dayCount, in insertion order: the days in order of first occurrence
RECURSIVE DayStats(_, _)
DayStats(instants, seen) ==
    IF instants = <<>> THEN <<>>
    ELSE LET day == DayOf(Head(instants))
         IN  IF day \in seen THEN DayStats(Tail(instants), seen)
             ELSE <<day>> \o DayStats(Tail(instants), seen \cup {day})

DayCount(instants, day) == Cardinality({i \in DOMAIN instants : DayOf(instants[i]) = day})

\* The comparator of the busiest days: count descending, then most recent date first
compareDayStat(a, b) == IF b.count # a.count THEN b.count - a.count ELSE b.date - a.date

RECURSIVE InsertDayStat(_, _)
InsertDayStat(sorted, e) ==
    IF sorted = <<>> THEN <<e>>
    ELSE IF compareDayStat(Head(sorted), e) <= 0
    THEN <<Head(sorted)>> \o InsertDayStat(Tail(sorted), e)
    ELSE <<e>> \o sorted

RECURSIVE SortDayStats(_)
SortDayStats(dayStats) ==
    IF dayStats = <<>> THEN <<>>
    ELSE InsertDayStat(SortDayStats(SubSeq(dayStats, 1, Len(dayStats) - 1)),
                       dayStats[Len(dayStats)])

\* The five busiest days among the instants
BusiestDays(instants) ==
    LET days == DayStats(instants, {})
    IN  Slice(SortDayStats([i \in DOMAIN days |->
                               [date |-> days[i], count |-> DayCount(instants, days[i])]]), 5)

findBusiestCreationDays(tickets) ==
    BusiestDays([i \in DOMAIN tickets |-> tickets[i].createdDate])

HasResolvedDate(ticket) == IsSome(ticket.resolvedDate)

findBusiestClosureDays(tickets) ==
    LET ticketsWithResolution == SelectSeq(tickets, HasResolvedDate)
    IN  BusiestDays([i \in DOMAIN ticketsWithResolution |->
                        Get(ticketsWithResolution[i].resolvedDate)])

\* The mutated generator: the longest-duration lookup throws like the other lookups
generateTicketInsightsStrict(data) ==
    IF Len(SelectSeq(data.tickets, HasDuration)) = 0
    THEN Thrown("No tickets available for analysis")
    ELSE Returned([mostSprintChanges |->
                       Get(findTicketWithMostSprintChanges(data.tickets).value),
                   longestDuration |-> findLongestDurationTicket(data.tickets),
                   longestSummary |-> Get(findLongestSummaryTicket(data.tickets).value),
                   shortestSummary |-> Get(findShortestSummaryTicket(data.tickets).value),
                   busiestCreationDays |-> findBusiestCreationDays(data.tickets),
                   busiestClosureDays |-> findBusiestClosureDays(data.tickets)])

generateTicketInsights(data) ==
    IF Len(data.tickets) = 0 THEN Thrown("No tickets available for analysis")
    ELSE Returned([mostSprintChanges |->
                       Get(findTicketWithMostSprintChanges(data.tickets).value),
                   longestDuration |-> findLongestDurationTicket(data.tickets),
                   longestSummary |-> Get(findLongestSummaryTicket(data.tickets).value),
                   shortestSummary |-> Get(findShortestSummaryTicket(data.tickets).value),
                   busiestCreationDays |-> findBusiestCreationDays(data.tickets),
                   busiestClosureDays |-> findBusiestClosureDays(data.tickets)])

RECURSIVE SumStoryPoints(_)
SumStoryPoints(tickets) ==
    IF tickets = <<>> THEN 0 ELSE Head(tickets).storyPoints + SumStoryPoints(Tail(tickets))

\* The mutated test of a completed grouping: some ticket of it is completed
IsStartedEpic(epic) == epic.completedTickets > 0 /\ epic.ticketCount > 0

IsCompletedEpic(epic) == epic.completedTickets = epic.ticketCount /\ epic.ticketCount > 0

\* x.toFixed(1) for x = 100 * num / den, in tenths
ToFixed1(num, den) == (2000 * num + den) \div (2 * den)

\* generateAchievements: the achievements pushed, in order (title, value, category);
\* a value is the number the string shows, for Quality Focus in tenths of a percent
generateAchievements(data) ==
    LET totalStoryPoints == SumStoryPoints(data.tickets)
        completedEpics == SelectSeq(data.epics, IsCompletedEpic)
        completedTickets == SelectSeq(data.tickets, IsClosed)
        totalBugs == Len(SelectSeq(data.tickets, IsBugTyped))
        escapedBugs == Len(SelectSeq(data.tickets, IsEscaped))
    IN  (IF totalStoryPoints > 0
         THEN <<[title |-> "Story Points Delivered", value |-> totalStoryPoints,
                 category |-> "performance"]>>
         ELSE <<>>)
        \o (IF Len(completedEpics) > 0
            THEN <<[title |-> "Epics Completed", value |-> Len(completedEpics),
                    category |-> "milestone"]>>
            ELSE <<>>)
        \o (IF Len(completedTickets) > 0
            THEN <<[title |-> "Tickets Completed", value |-> Len(completedTickets),
                    category |-> "performance"]>>
            ELSE <<>>)
        \o (IF totalBugs > 0 /\ 100 * escapedBugs < 20 * totalBugs
            THEN <<[title |-> "Quality Focus",
                    value |-> ToFixed1(totalBugs - escapedBugs, totalBugs),
                    category |-> "quality"]>>
            ELSE <<>>)

HasHighSprintCount(ticket) == ticket.sprintCount > 3

HasLongDuration(ticket) == IsSome(ticket.duration) /\ Get(ticket.duration) > 30

\* The mutated severity: the thresholds are inclusive
SeverityOfInclusive(count, total, high, medium) ==
    IF 100 * count >= high * total THEN "high"
    ELSE IF 100 * count >= medium * total THEN "medium"
    ELSE "low"

\* percentage > high ? 'high' : percentage > medium ? 'medium' : 'low', for
\* percentage = (count / total) * 100
SeverityOf(count, total, high, medium) ==
    IF 100 * count > high * total THEN "high"
    ELSE IF 100 * count > medium * total THEN "medium"
    ELSE "low"

\* generateImprovementAreas: the items pushed, in order (title, severity, category)
generateImprovementAreas(data) ==
    LET highSprintChangeTickets == SelectSeq(data.tickets, HasHighSprintCount)
        longDurationTickets == SelectSeq(data.tickets, HasLongDuration)
        totalBugs == Len(SelectSeq(data.tickets, IsBugTyped))
        escapedBugs == Len(SelectSeq(data.tickets, IsEscaped))
    IN  (IF Len(highSprintChangeTickets) > 0
         THEN <<[title |-> "Sprint Stability",
                 severity |-> SeverityOf(Len(highSprintChangeTickets), Len(data.tickets),
                                         15, 8),
                 category |-> "process"]>>
         ELSE <<>>)
        \o (IF Len(longDurationTickets) > 0
            THEN <<[title |-> "Ticket Duration",
                    severity |-> SeverityOf(Len(longDurationTickets), Len(data.tickets),
                                            20, 10),
                    category |-> "efficiency"]>>
            ELSE <<>>)
        \o (IF totalBugs > 0 /\ 100 * escapedBugs > 30 * totalBugs
            THEN <<[title |-> "Bug Detection",
                    severity |-> IF 100 * escapedBugs > 50 * totalBugs
                                 THEN "high" ELSE "medium",
                    category |-> "quality"]>>
            ELSE <<>>)

-----------------------------------------------------------------------------
(* InsightsEngine.calculateMonthlyBugTrends                                *)
(* A Date is read here only through getFullYear() and getMonth(), so a     *)
(* ticket date is the record [year, month] of those calendar fields        *)
(* (month is 1..12, i.e. getMonth() + 1).                                  *)

MaxBugs == 3
TrendYears == {2024, 2025}
TrendMonths == {1, 12}
TrendDates == [year : TrendYears, month : TrendMonths]

\* getMonthKey: `${year}-${month padded to 2}`; the key "YYYY-MM" is the number
\* YYYYMM, whose numeric order is the string order of the zero-padded keys
GetMonthKey(date) == date.year * 100 + date.month

\* monthlyData after the two counting loops: the keys, and created / closed per key
MonthKeys(bs) ==
    {GetMonthKey(bs[i].createdDate) : i \in DOMAIN bs}
    \cup {GetMonthKey(Get(bs[i].resolvedDate)) : i \in {j \in DOMAIN bs : IsSome(bs[j].resolvedDate)}}

CreatedIn(bs, k) == Cardinality({i \in DOMAIN bs : GetMonthKey(bs[i].createdDate) = k})

ClosedIn(bs, k) ==
    Cardinality({i \in DOMAIN bs : IsSome(bs[i].resolvedDate)
                                   /\ GetMonthKey(Get(bs[i].resolvedDate)) = k})

\* The mutated accumulator: the floored value is carried into the next month
CarryClamped(cumulativeOpen, created, closed) == Max(0, cumulativeOpen) + created - closed

\* cumulativeOpen += data.created - data.closed
Carry(cumulativeOpen, created, closed) == cumulativeOpen + created - closed

\* sortedMonths.map(...) with the running cumulativeOpen of the enclosing scope
RECURSIVE TrendPoints(_, _, _)
TrendPoints(bs, sortedMonths, cumulativeOpen) ==
    IF sortedMonths = <<>> THEN <<>>
    ELSE LET monthKey == Head(sortedMonths)
             created == CreatedIn(bs, monthKey)
             closed == ClosedIn(bs, monthKey)
             cum == Carry(cumulativeOpen, created, closed)
         IN  <<[year |-> monthKey \div 100,
                month |-> monthKey % 100,
                created |-> created,
                closed |-> closed,
                cumulativeOpen |-> Max(0, cum)]>>
             \o TrendPoints(bs, Tail(sortedMonths), cum)

calculateMonthlyBugTrends(bs) == TrendPoints(bs, SortAsc(MonthKeys(bs)), 0)

TrendInit ==
    /\ pc = "start"
    /\ bugs \in SeqsUpTo([createdDate : TrendDates,
                          resolvedDate : {None} \cup {Some(d) : d \in TrendDates}], MaxBugs)
    /\ monthlyTrends = <<>>
    /\ clock = 0
    /\ rawData = <<>>
    /\ processedData = None
    /\ bugInsights = None
    /\ headerRow = <<>>
    /\ columnMap = None
    /\ sheet = <<>>
    /\ mainRaw = None
    /\ mainData = None
    /\ posted = <<>>
    /\ epicInsights = None
    /\ ticketInsights = None
    /\ achievements = None
    /\ improvementAreas = None
    /\ csvText = None
    /\ csvRows = None
    /\ uploadFile = None
    /\ workerSupported = None
    /\ appStage = None
    /\ appError = None
    /\ steps = None
    /\ inbox = None
    /\ handled = None
    /\ sprintCell = None
    /\ parsedSprints = None
    /\ callbacks = None
    /\ hookLog = None
    /\ appState = None
    /\ delivered = None
    /\ uiEvents = None
    /\ isDragOver = None
    /\ rendered = None

CalculateTrends ==
    /\ pc = "start"
    /\ monthlyTrends' = calculateMonthlyBugTrends(bugs)
    /\ pc' = "trends"
    /\ UNCHANGED bugs
    /\ UNCHANGED transformVars
    /\ UNCHANGED columnVars
    /\ UNCHANGED pipelineVars
    /\ UNCHANGED insightVars
    /\ UNCHANGED csvVars
    /\ UNCHANGED uploadVars
    /\ UNCHANGED workerVars
    /\ UNCHANGED sprintVars
    /\ UNCHANGED hookVars
    /\ UNCHANGED appVars
    /\ UNCHANGED renderVars

TrendNext == CalculateTrends

SpecTrend == TrendInit /\ [][TrendNext]_vars

\* Sum of created - closed over the first i points of a series
RECURSIVE NetUpTo(_, _)
NetUpTo(series, i) ==
    IF i = 0 THEN 0 ELSE NetUpTo(series, i - 1) + series[i].created - series[i].closed

SeriesChronological ==
    \A i \in 1..(Len(monthlyTrends) - 1) :
        monthlyTrends[i].year * 100 + monthlyTrends[i].month
            < monthlyTrends[i + 1].year * 100 + monthlyTrends[i + 1].month

-----------------------------------------------------------------------------
(* Specification of the grouping rankings: generateEpicInsights on a        *)
(* ProcessedJiraData whose epics are the values of the aggregation map, so  *)
(* their keys are pairwise distinct                                        *)

MaxEpics == 4

RankKeys == {<<"E","-","1">>, <<"E","-","1","0">>, <<"E","-","2">>, <<"F","-","1">>, <<"D","-","3">>}

RankCounts ==
    {[ticketCount |-> 2, totalStoryPoints |-> 5, completedTickets |-> 2],
     [ticketCount |-> 2, totalStoryPoints |-> 3, completedTickets |-> 1],
     [ticketCount |-> 1, totalStoryPoints |-> 5, completedTickets |-> 0]}

RankEpic(key, counts) ==
    [key |-> key, name |-> <<"E","p","i","c">>, ticketCount |-> counts.ticketCount,
     totalStoryPoints |-> counts.totalStoryPoints,
     completedTickets |-> counts.completedTickets]

Injective(s) == \A i, j \in DOMAIN s : i # j => s[i] # s[j]

RankKeyLists == {keys \in SeqsUpTo(RankKeys, MaxEpics) : Injective(keys)}

RankEpicList(keys, counts) == [i \in DOMAIN keys |-> RankEpic(keys[i], counts[i])]

RankingInit ==
    /\ pc = "start"
    /\ \E keys \in RankKeyLists :
          \E counts \in [DOMAIN keys -> RankCounts] :
              processedData = Some([tickets |-> <<>>, epics |-> RankEpicList(keys, counts)])
    /\ epicInsights = None
    /\ bugs = <<>>
    /\ monthlyTrends = <<>>
    /\ clock = 0
    /\ rawData = <<>>
    /\ bugInsights = None
    /\ headerRow = <<>>
    /\ columnMap = None
    /\ sheet = <<>>
    /\ mainRaw = None
    /\ mainData = None
    /\ posted = <<>>
    /\ ticketInsights = None
    /\ achievements = None
    /\ improvementAreas = None
    /\ csvText = None
    /\ csvRows = None
    /\ uploadFile = None
    /\ workerSupported = None
    /\ appStage = None
    /\ appError = None
    /\ steps = None
    /\ inbox = None
    /\ handled = None
    /\ sprintCell = None
    /\ parsedSprints = None
    /\ callbacks = None
    /\ hookLog = None
    /\ appState = None
    /\ delivered = None
    /\ uiEvents = None
    /\ isDragOver = None
    /\ rendered = None

GenerateEpicInsights ==
    /\ pc = "start"
    /\ epicInsights' = Some(generateEpicInsights(Get(processedData)))
    /\ pc' = "ranked"
    /\ UNCHANGED <<ticketInsights, achievements, improvementAreas>>
    /\ UNCHANGED trendVars
    /\ UNCHANGED transformVars
    /\ UNCHANGED columnVars
    /\ UNCHANGED pipelineVars
    /\ UNCHANGED csvVars
    /\ UNCHANGED uploadVars
    /\ UNCHANGED workerVars
    /\ UNCHANGED sprintVars
    /\ UNCHANGED hookVars
    /\ UNCHANGED appVars
    /\ UNCHANGED renderVars

RankingNext == GenerateEpicInsights

SpecRanking == RankingInit /\ [][RankingNext]_vars

Ranked == pc = "ranked"
RankedEpics == Get(processedData).epics
TopByTicketCount == Get(epicInsights).topByTicketCount
TopByStoryPoints == Get(epicInsights).topByStoryPoints

\* a ranks strictly before b: larger metric, or equal metric and smaller key
BeforeByTicketCount(a, b) ==
    \/ a.ticketCount > b.ticketCount
    \/ a.ticketCount = b.ticketCount /\ StrLess(a.key, b.key)

BeforeByStoryPoints(a, b) ==
    \/ a.totalStoryPoints > b.totalStoryPoints
    \/ a.totalStoryPoints = b.totalStoryPoints /\ StrLess(a.key, b.key)

MinOf(a, b) == IF a <= b THEN a ELSE b

\* The list with two neighbours exchanged; the exchanges generate every permutation
SwapAt(s, i) == [j \in DOMAIN s |-> IF j = i THEN s[i + 1] ELSE IF j = i + 1 THEN s[i] ELSE s[j]]

\* C11: each ranking has min(3, number of groupings) entries, the entry at
\* position i is the grouping that exactly i - 1 groupings of the input rank
\* before (metric descending, ties by ascending key), and exchanging any two
\* neighbours of the input list, hence any permutation, leaves both rankings
\* unchanged
C11_RankingsPermutationInvariant ==
    Ranked =>
        /\ Len(TopByTicketCount) = MinOf(3, Len(RankedEpics))
        /\ Len(TopByStoryPoints) = MinOf(3, Len(RankedEpics))
        /\ \A i \in DOMAIN TopByTicketCount :
              /\ TopByTicketCount[i] \in Range(RankedEpics)
              /\ Cardinality({e \in Range(RankedEpics) :
                                 BeforeByTicketCount(e, TopByTicketCount[i])}) = i - 1
        /\ \A i \in DOMAIN TopByStoryPoints :
              /\ TopByStoryPoints[i] \in Range(RankedEpics)
              /\ Cardinality({e \in Range(RankedEpics) :
                                 BeforeByStoryPoints(e, TopByStoryPoints[i])}) = i - 1
        /\ \A i \in 1..(Len(RankedEpics) - 1) :
              generateEpicInsights([epics |-> SwapAt(RankedEpics, i)]) = Get(epicInsights)

\* Four groupings, two of them tied on ticketCount and listed with the larger
\* key first, both ranked, the smaller key first; one grouping is cut off
C11_Witness ==
    /\ Ranked
    /\ Len(RankedEpics) = 4
    /\ Len(TopByTicketCount) = 3
    /\ RankedEpics[1].key = <<"E","-","2">>
    /\ RankedEpics[2].key = <<"E","-","1","0">>
    /\ RankedEpics[1].ticketCount = RankedEpics[2].ticketCount
    /\ TopByTicketCount[1] = RankedEpics[2]
    /\ TopByTicketCount[2] = RankedEpics[1]
    /\ TopByStoryPoints[1] # TopByTicketCount[1]

-----------------------------------------------------------------------------
(* Specification of the ticket extremes: generateTicketInsights on a        *)
(* ProcessedJiraData whose tickets are results of transformSingleTicket     *)

MaxInsightTickets == 3

InsightKeys == {<<"P","-","1">>, <<"P","-","1","0">>, <<"P","-","2">>}

\* summary, sprintCount, createdDate and resolvedDate of a ticket; the durations
\* are undefined, 2, 2 and 0 days
InsightProfiles ==
    {[summary |-> <<"a","b">>, sprintCount |-> 1, createdDate |-> 0, resolvedDate |-> None],
     [summary |-> <<"a","b","c">>, sprintCount |-> 2, createdDate |-> 0,
      resolvedDate |-> Some(2 * DayMs)],
     [summary |-> <<"a","b">>, sprintCount |-> 2, createdDate |-> DayMs,
      resolvedDate |-> Some(3 * DayMs)],
     [summary |-> <<"a","b","c">>, sprintCount |-> 1, createdDate |-> DayMs,
      resolvedDate |-> Some(DayMs)]}

\* The ProcessedTicket transformSingleTicket builds from such values
InsightTicket(key, profile) ==
    [key |-> key,
     summary |-> profile.summary,
     issueType |-> <<"S","t","o","r","y">>,
     status |-> IF IsSome(profile.resolvedDate) THEN <<"D","o","n","e">> ELSE <<"O","p","e","n">>,
     parentKey |-> None,
     storyPoints |-> 0,
     createdDate |-> profile.createdDate,
     resolvedDate |-> profile.resolvedDate,
     duration |-> calculateDuration(profile.createdDate, profile.resolvedDate),
     sprintCount |-> profile.sprintCount,
     isEscapedBug |-> FALSE,
     summaryLength |-> Len(profile.summary)]

TicketInsightsInit ==
    /\ pc = "start"
    /\ \E keys \in SeqsUpTo(InsightKeys, MaxInsightTickets) :
          \E profiles \in [DOMAIN keys -> InsightProfiles] :
              processedData =
                  Some([tickets |-> [i \in DOMAIN keys |-> InsightTicket(keys[i], profiles[i])],
                        epics |-> <<>>])
    /\ ticketInsights = None
    /\ bugs = <<>>
    /\ monthlyTrends = <<>>
    /\ clock = 0
    /\ rawData = <<>>
    /\ bugInsights = None
    /\ headerRow = <<>>
    /\ columnMap = None
    /\ sheet = <<>>
    /\ mainRaw = None
    /\ mainData = None
    /\ posted = <<>>
    /\ epicInsights = None
    /\ achievements = None
    /\ improvementAreas = None
    /\ csvText = None
    /\ csvRows = None
    /\ uploadFile = None
    /\ workerSupported = None
    /\ appStage = None
    /\ appError = None
    /\ steps = None
    /\ inbox = None
    /\ handled = None
    /\ sprintCell = None
    /\ parsedSprints = None
    /\ callbacks = None
    /\ hookLog = None
    /\ appState = None
    /\ delivered = None
    /\ uiEvents = None
    /\ isDragOver = None
    /\ rendered = None

GenerateTicketInsights ==
    /\ pc = "start"
    /\ ticketInsights' = Some(generateTicketInsights(Get(processedData)))
    /\ pc' = "analysed"
    /\ UNCHANGED <<epicInsights, achievements, improvementAreas>>
    /\ UNCHANGED trendVars
    /\ UNCHANGED transformVars
    /\ UNCHANGED columnVars
    /\ UNCHANGED pipelineVars
    /\ UNCHANGED csvVars
    /\ UNCHANGED uploadVars
    /\ UNCHANGED workerVars
    /\ UNCHANGED sprintVars
    /\ UNCHANGED hookVars
    /\ UNCHANGED appVars
    /\ UNCHANGED renderVars

TicketInsightsNext == GenerateTicketInsights

SpecTicketInsights == TicketInsightsInit /\ [][TicketInsightsNext]_vars

Analysed == pc = "analysed"
AnalysedTickets == Get(processedData).tickets
InsightsReturned == Analysed /\ Get(ticketInsights).ok
TicketInsights == Get(Get(ticketInsights).value)

TicketSet == Range(AnalysedTickets)
TicketsWithDuration == {t \in TicketSet : IsSome(t.duration)}

\* No ticket of the set that ties with t on the metric has a smaller key
SmallestKeyAmong(t, tied) == \A u \in tied : ~StrLess(u.key, t.key)

ExtremeKeys(insights) ==
    <<insights.mostSprintChanges.key,
      IF IsSome(insights.longestDuration) THEN Some(Get(insights.longestDuration).key)
      ELSE None,
      insights.longestSummary.key,
      insights.shortestSummary.key>>

ExtremeTickets(insights) ==
    <<insights.mostSprintChanges, insights.longestDuration, insights.longestSummary,
      insights.shortestSummary>>

TicketKeys == [i \in DOMAIN AnalysedTickets |-> AnalysedTickets[i].key]

\* C12: for a non-empty ticket list, mostSprintChanges has the maximal sprintCount,
\* longestSummary the maximal and shortestSummary the minimal summaryLength,
\* longestDuration the maximal defined duration; each is, among the tickets tied
\* on its metric, one with the smallest key; exchanging two neighbours of the
\* list (hence any permutation) leaves the four keys unchanged, and the four
\* tickets themselves when the keys of the list are pairwise distinct
C12_ExtremesSmallestKey ==
    InsightsReturned =>
        LET most == TicketInsights.mostSprintChanges
            longest == TicketInsights.longestSummary
            shortest == TicketInsights.shortestSummary
        IN  /\ most \in TicketSet
            /\ \A u \in TicketSet : u.sprintCount <= most.sprintCount
            /\ SmallestKeyAmong(most, {u \in TicketSet : u.sprintCount = most.sprintCount})
            /\ longest \in TicketSet
            /\ \A u \in TicketSet : u.summaryLength <= longest.summaryLength
            /\ SmallestKeyAmong(longest,
                                {u \in TicketSet : u.summaryLength = longest.summaryLength})
            /\ shortest \in TicketSet
            /\ \A u \in TicketSet : u.summaryLength >= shortest.summaryLength
            /\ SmallestKeyAmong(shortest,
                                {u \in TicketSet : u.summaryLength = shortest.summaryLength})
            /\ IsSome(TicketInsights.longestDuration) <=> TicketsWithDuration # {}
            /\ IsSome(TicketInsights.longestDuration) =>
                  LET slowest == Get(TicketInsights.longestDuration)
                  IN  /\ slowest \in TicketsWithDuration
                      /\ \A u \in TicketsWithDuration :
                            Get(u.duration) <= Get(slowest.duration)
                      /\ SmallestKeyAmong(slowest,
                                          {u \in TicketsWithDuration :
                                              Get(u.duration) = Get(slowest.duration)})
            /\ \A i \in 1..(Len(AnalysedTickets) - 1) :
                  LET exchanged ==
                          Get(generateTicketInsights(
                                  [tickets |-> SwapAt(AnalysedTickets, i)]).value)
                  IN  /\ ExtremeKeys(exchanged) = ExtremeKeys(TicketInsights)
                      /\ Injective(TicketKeys) =>
                            ExtremeTickets(exchanged) = ExtremeTickets(TicketInsights)

\* Three tickets: P-2 and P-10 tie on the maximal sprintCount and on the maximal
\* duration, P-2 is listed first, and P-10 is returned for both
C12_Witness ==
    /\ InsightsReturned
    /\ Len(AnalysedTickets) = 3
    /\ AnalysedTickets[1].key = <<"P","-","2">>
    /\ AnalysedTickets[2].key = <<"P","-","1","0">>
    /\ AnalysedTickets[3].key = <<"P","-","1">>
    /\ AnalysedTickets[1].sprintCount = 2
    /\ AnalysedTickets[2].sprintCount = 2
    /\ AnalysedTickets[1].duration = Some(2)
    /\ AnalysedTickets[2].duration = Some(2)
    /\ AnalysedTickets[3].duration = None
    /\ TicketInsights.mostSprintChanges = AnalysedTickets[2]
    /\ TicketInsights.longestDuration = Some(AnalysedTickets[2])
    /\ TicketInsights.shortestSummary.key = <<"P","-","1">>
    /\ TicketInsights.longestSummary.summaryLength = 3

\* C13: generateTicketInsights throws 'No tickets available for analysis' iff the
\* ticket list is empty; for a non-empty list it returns, with longestDuration
\* null iff no ticket has a defined duration
C13_ThrowsIffEmpty ==
    Analysed =>
        /\ ~Get(ticketInsights).ok <=> Len(AnalysedTickets) = 0
        /\ ~Get(ticketInsights).ok =>
              /\ Get(ticketInsights).error = "No tickets available for analysis"
              /\ Get(ticketInsights).value = None
        /\ Get(ticketInsights).ok =>
              (TicketInsights.longestDuration = None <=> TicketsWithDuration = {})

\* Two tickets without a resolved date: the call returns, longestDuration is null
C13_Witness ==
    /\ InsightsReturned
    /\ Len(AnalysedTickets) = 2
    /\ \A i \in DOMAIN AnalysedTickets : AnalysedTickets[i].duration = None
    /\ TicketInsights.longestDuration = None
    /\ TicketInsights.mostSprintChanges.key = TicketInsights.shortestSummary.key

-----------------------------------------------------------------------------
(* Specification of the achievements: generateAchievements on a             *)
(* ProcessedJiraData given by the number of tickets of each kind            *)

MaxOpenBugs == 6

\* The key of the n-th ticket, n < 100
DigitOf(n) == CHOOSE c \in DigitChars : DigitValue(c) = n
KeyOfNumber(n) ==
    <<"P","-">> \o (IF n < 10 THEN <<DigitOf(n)>> ELSE <<DigitOf(n \div 10), DigitOf(n % 10)>>)

\* A ProcessedTicket as the transformers build it, for the fields the generators read;
\* it was created 15 days before the origin of the instants
KindTicket(kind) ==
    [key |-> <<"P","-","0">>,
     summary |-> <<"a","b">>,
     issueType |-> kind.issueType,
     status |-> kind.status,
     parentKey |-> None,
     storyPoints |-> kind.storyPoints,
     createdDate |-> -15 * DayMs,
     resolvedDate |-> IF IsSome(kind.duration) THEN Some((Get(kind.duration) - 15) * DayMs)
                      ELSE None,
     duration |-> kind.duration,
     sprintCount |-> kind.sprintCount,
     isEscapedBug |-> kind.isEscapedBug,
     summaryLength |-> 2]

Repeat(n, ticket) == [i \in 1..n |-> ticket]

\* The tickets numbered in list order
Numbered(tickets) == [i \in DOMAIN tickets |-> [tickets[i] EXCEPT !.key = KeyOfNumber(i)]]

PointedStory ==
    KindTicket([issueType |-> <<"S","t","o","r","y">>, status |-> <<"I","n"," ","P","r","o","g","r","e","s","s">>, storyPoints |-> 2,
                duration |-> None, sprintCount |-> 1, isEscapedBug |-> FALSE])
\* storyPoints || 0 of the worker keeps a negative number
NegativeStory ==
    KindTicket([issueType |-> <<"S","t","o","r","y">>, status |-> <<"O","p","e","n">>, storyPoints |-> -2,
                duration |-> None, sprintCount |-> 1, isEscapedBug |-> FALSE])
DoneStory ==
    KindTicket([issueType |-> <<"S","t","o","r","y">>, status |-> <<"D","o","n","e">>, storyPoints |-> 3,
                duration |-> Some(30), sprintCount |-> 3, isEscapedBug |-> FALSE])
ClosedTask ==
    KindTicket([issueType |-> <<"T","a","s","k">>, status |-> <<"C","L","O","S","E","D">>, storyPoints |-> 0,
                duration |-> Some(1), sprintCount |-> 1, isEscapedBug |-> FALSE])
OpenBug ==
    KindTicket([issueType |-> <<"b","u","g">>, status |-> <<"O","p","e","n">>, storyPoints |-> 0,
                duration |-> None, sprintCount |-> 1, isEscapedBug |-> FALSE])
EscapedBug ==
    KindTicket([issueType |-> <<"B","u","g">>, status |-> <<"O","p","e","n">>, storyPoints |-> 0,
                duration |-> None, sprintCount |-> 1, isEscapedBug |-> TRUE])

CountedEpic(key, ticketCount, completedTickets) ==
    [key |-> key, name |-> <<"E","p","i","c">>, ticketCount |-> ticketCount, totalStoryPoints |-> 3,
     completedTickets |-> completedTickets]

EpicLists ==
    {<<>>,
     <<CountedEpic(<<"E","-","1">>, 2, 2)>>,
     <<CountedEpic(<<"E","-","1">>, 2, 1)>>,
     <<CountedEpic(<<"E","-","1">>, 1, 0)>>,
     <<CountedEpic(<<"E","-","1">>, 2, 2), CountedEpic(<<"E","-","2">>, 2, 1), CountedEpic(<<"E","-","1","0">>, 1, 1)>>}

AchievementsInit ==
    /\ pc = "start"
    /\ \E pointed, negative, done, closed \in 0..1 :
          \E openBugs \in 0..MaxOpenBugs :
              \E escapedBugs \in 0..2 :
                  \E epics \in EpicLists :
                      processedData =
                          Some([tickets |->
                                    Numbered(Repeat(pointed, PointedStory)
                                             \o Repeat(negative, NegativeStory)
                                             \o Repeat(done, DoneStory)
                                             \o Repeat(closed, ClosedTask)
                                             \o Repeat(openBugs, OpenBug)
                                             \o Repeat(escapedBugs, EscapedBug)),
                                epics |-> epics])
    /\ achievements = None
    /\ bugs = <<>>
    /\ monthlyTrends = <<>>
    /\ clock = 0
    /\ rawData = <<>>
    /\ bugInsights = None
    /\ headerRow = <<>>
    /\ columnMap = None
    /\ sheet = <<>>
    /\ mainRaw = None
    /\ mainData = None
    /\ posted = <<>>
    /\ epicInsights = None
    /\ ticketInsights = None
    /\ improvementAreas = None
    /\ csvText = None
    /\ csvRows = None
    /\ uploadFile = None
    /\ workerSupported = None
    /\ appStage = None
    /\ appError = None
    /\ steps = None
    /\ inbox = None
    /\ handled = None
    /\ sprintCell = None
    /\ parsedSprints = None
    /\ callbacks = None
    /\ hookLog = None
    /\ appState = None
    /\ delivered = None
    /\ uiEvents = None
    /\ isDragOver = None
    /\ rendered = None

GenerateAchievements ==
    /\ pc = "start"
    /\ achievements' = Some(generateAchievements(Get(processedData)))
    /\ pc' = "achievements"
    /\ UNCHANGED <<epicInsights, ticketInsights, improvementAreas>>
    /\ UNCHANGED trendVars
    /\ UNCHANGED transformVars
    /\ UNCHANGED columnVars
    /\ UNCHANGED pipelineVars
    /\ UNCHANGED csvVars
    /\ UNCHANGED uploadVars
    /\ UNCHANGED workerVars
    /\ UNCHANGED sprintVars
    /\ UNCHANGED hookVars
    /\ UNCHANGED appVars
    /\ UNCHANGED renderVars

AchievementsNext == GenerateAchievements

SpecAchievements == AchievementsInit /\ [][AchievementsNext]_vars

Achieved == pc = "achievements"
Achievements == Get(achievements)
DataTickets == Get(processedData).tickets
DataEpics == Get(processedData).epics

\* Independent counts over the input
CountTickets(P(_)) == Cardinality({i \in DOMAIN DataTickets : P(DataTickets[i])})
PointsTotal == SumSeq([i \in DOMAIN DataTickets |-> DataTickets[i].storyPoints])
CompletedEpicCount ==
    Cardinality({i \in DOMAIN DataEpics :
                    /\ DataEpics[i].completedTickets = DataEpics[i].ticketCount
                    /\ DataEpics[i].ticketCount > 0})
ClosedStatus(ticket) == ToLowerCase(ticket.status) \in {<<"d","o","n","e">>, <<"c","l","o","s","e","d">>, <<"r","e","s","o","l","v","e","d">>}
BugType(ticket) == ToLowerCase(ticket.issueType) = <<"b","u","g">>
EscapedFlag(ticket) == ticket.isEscapedBug

Emitted(items, title) == \E i \in DOMAIN items : items[i].title = title
ItemOf(items, title) == items[CHOOSE i \in DOMAIN items : items[i].title = title]
TitlesDistinct(items) == \A i, j \in DOMAIN items : i # j => items[i].title # items[j].title

\* C19: each of the four achievements is emitted, once, iff its own trigger
\* holds: Story Points Delivered iff the story points sum to more than 0,
\* Epics Completed iff some grouping has completedTickets = ticketCount > 0
\* (value: their number), Tickets Completed iff some ticket has a closed status
\* (value: their number), Quality Focus iff there are bug-typed tickets and
\* 100 * escaped / bugs < 20
C19_AchievementTriggers ==
    Achieved =>
        /\ TitlesDistinct(Achievements)
        /\ \A i \in DOMAIN Achievements :
              Achievements[i].title \in {"Story Points Delivered", "Epics Completed",
                                         "Tickets Completed", "Quality Focus"}
        /\ Emitted(Achievements, "Story Points Delivered") <=> PointsTotal > 0
        /\ Emitted(Achievements, "Story Points Delivered") =>
              ItemOf(Achievements, "Story Points Delivered").value = PointsTotal
        /\ Emitted(Achievements, "Epics Completed") <=> CompletedEpicCount > 0
        /\ Emitted(Achievements, "Epics Completed") =>
              ItemOf(Achievements, "Epics Completed").value = CompletedEpicCount
        /\ Emitted(Achievements, "Tickets Completed") <=> CountTickets(ClosedStatus) > 0
        /\ Emitted(Achievements, "Tickets Completed") =>
              ItemOf(Achievements, "Tickets Completed").value = CountTickets(ClosedStatus)
        /\ Emitted(Achievements, "Quality Focus") <=>
              /\ CountTickets(BugType) > 0
              /\ 100 * CountTickets(EscapedFlag) < 20 * CountTickets(BugType)

\* Six bugs of which one escaped (16.7 %), two of three groupings complete, no
\* story points in sum and no closed ticket: exactly Epics Completed and Quality
\* Focus are emitted
C19_Witness ==
    /\ Achieved
    /\ CountTickets(BugType) = 6
    /\ CountTickets(EscapedFlag) = 1
    /\ Len(DataEpics) = 3
    /\ PointsTotal = 0
    /\ Len(DataTickets) = 8
    /\ Len(Achievements) = 2
    /\ Achievements[1].title = "Epics Completed"
    /\ Achievements[1].value = 2
    /\ Achievements[2].title = "Quality Focus"
    /\ Achievements[2].value = 833

-----------------------------------------------------------------------------
(* Specification of the improvement areas: generateImprovementAreas on a    *)
(* ProcessedJiraData given by the number of tickets of each kind            *)

MaxFiller == 12

PlainStory ==
    KindTicket([issueType |-> <<"S","t","o","r","y">>, status |-> <<"O","p","e","n">>, storyPoints |-> 1,
                duration |-> None, sprintCount |-> 1, isEscapedBug |-> FALSE])
\* More than 3 sprints
UnstableStory ==
    KindTicket([issueType |-> <<"S","t","o","r","y">>, status |-> <<"O","p","e","n">>, storyPoints |-> 1,
                duration |-> None, sprintCount |-> 4, isEscapedBug |-> FALSE])
\* More than 30 days
SlowStory ==
    KindTicket([issueType |-> <<"S","t","o","r","y">>, status |-> <<"D","o","n","e">>, storyPoints |-> 1,
                duration |-> Some(31), sprintCount |-> 1, isEscapedBug |-> FALSE])

ImprovementsInit ==
    /\ pc = "start"
    /\ \E filler \in 0..MaxFiller :
          \E unstable \in 0..3 :
              \E slow \in 0..2 :
                  \E done \in 0..1 :
                      \E openBugs \in 0..(MaxOpenBugs + 1) :
                          \E escapedBugs \in 0..3 :
                              processedData =
                                  Some([tickets |->
                                            Numbered(Repeat(filler, PlainStory)
                                                     \o Repeat(unstable, UnstableStory)
                                                     \o Repeat(slow, SlowStory)
                                                     \o Repeat(done, DoneStory)
                                                     \o Repeat(openBugs, OpenBug)
                                                     \o Repeat(escapedBugs, EscapedBug)),
                                        epics |-> <<>>])
    /\ improvementAreas = None
    /\ bugs = <<>>
    /\ monthlyTrends = <<>>
    /\ clock = 0
    /\ rawData = <<>>
    /\ bugInsights = None
    /\ headerRow = <<>>
    /\ columnMap = None
    /\ sheet = <<>>
    /\ mainRaw = None
    /\ mainData = None
    /\ posted = <<>>
    /\ epicInsights = None
    /\ ticketInsights = None
    /\ achievements = None
    /\ csvText = None
    /\ csvRows = None
    /\ uploadFile = None
    /\ workerSupported = None
    /\ appStage = None
    /\ appError = None
    /\ steps = None
    /\ inbox = None
    /\ handled = None
    /\ sprintCell = None
    /\ parsedSprints = None
    /\ callbacks = None
    /\ hookLog = None
    /\ appState = None
    /\ delivered = None
    /\ uiEvents = None
    /\ isDragOver = None
    /\ rendered = None

GenerateImprovementAreas ==
    /\ pc = "start"
    /\ improvementAreas' = Some(generateImprovementAreas(Get(processedData)))
    /\ pc' = "improvements"
    /\ UNCHANGED <<epicInsights, ticketInsights, achievements>>
    /\ UNCHANGED trendVars
    /\ UNCHANGED transformVars
    /\ UNCHANGED columnVars
    /\ UNCHANGED pipelineVars
    /\ UNCHANGED csvVars
    /\ UNCHANGED uploadVars
    /\ UNCHANGED workerVars
    /\ UNCHANGED sprintVars
    /\ UNCHANGED hookVars
    /\ UNCHANGED appVars
    /\ UNCHANGED renderVars

ImprovementsNext == GenerateImprovementAreas

SpecImprovements == ImprovementsInit /\ [][ImprovementsNext]_vars

Improved == pc = "improvements"
Improvements == Get(improvementAreas)

ManySprints(ticket) == ticket.sprintCount > 3
ManyDays(ticket) == ticket.duration # None /\ Get(ticket.duration) > 30

\* high above the upper percentage of all tickets, medium above the lower one
\* and at most the upper one, low otherwise
SeverityByShare(count, high, medium) ==
    IF 100 * count > high * Len(DataTickets) THEN "high"
    ELSE IF 100 * count > medium * Len(DataTickets) /\ 100 * count <= high * Len(DataTickets)
    THEN "medium"
    ELSE "low"

\* C20: Sprint Stability is emitted iff some ticket has sprintCount > 3, with
\* severity by the share of such tickets (high > 15 %, medium > 8 %, else low);
\* Ticket Duration iff some ticket has a defined duration > 30, with 20 % and
\* 10 %; Bug Detection iff bug-typed tickets exist and more than 30 % of them
\* escaped, high iff more than 50 %, medium otherwise
C20_ImprovementSeverities ==
    Improved =>
        /\ TitlesDistinct(Improvements)
        /\ \A i \in DOMAIN Improvements :
              Improvements[i].title \in {"Sprint Stability", "Ticket Duration", "Bug Detection"}
        /\ Emitted(Improvements, "Sprint Stability") <=> CountTickets(ManySprints) > 0
        /\ Emitted(Improvements, "Sprint Stability") =>
              ItemOf(Improvements, "Sprint Stability").severity =
                  SeverityByShare(CountTickets(ManySprints), 15, 8)
        /\ Emitted(Improvements, "Ticket Duration") <=> CountTickets(ManyDays) > 0
        /\ Emitted(Improvements, "Ticket Duration") =>
              ItemOf(Improvements, "Ticket Duration").severity =
                  SeverityByShare(CountTickets(ManyDays), 20, 10)
        /\ Emitted(Improvements, "Bug Detection") <=>
              /\ CountTickets(BugType) > 0
              /\ 100 * CountTickets(EscapedFlag) > 30 * CountTickets(BugType)
        /\ Emitted(Improvements, "Bug Detection") =>
              ItemOf(Improvements, "Bug Detection").severity =
                  IF 100 * CountTickets(EscapedFlag) > 50 * CountTickets(BugType)
                  THEN "high" ELSE "medium"

\* Twenty tickets: 3 with more than 3 sprints (exactly 15 %: medium), 2 with more
\* than 30 days (exactly 10 %: low), 10 bugs of which 3 escaped (exactly 30 %: no item)
C20_Witness ==
    /\ Improved
    /\ Len(DataTickets) = 20
    /\ CountTickets(ManySprints) = 3
    /\ CountTickets(ManyDays) = 2
    /\ CountTickets(BugType) = 10
    /\ CountTickets(EscapedFlag) = 3
    /\ Len(Improvements) = 2
    /\ Improvements[1] = [title |-> "Sprint Stability", severity |-> "medium",
                          category |-> "process"]
    /\ Improvements[2] = [title |-> "Ticket Duration", severity |-> "low",
                          category |-> "efficiency"]

-----------------------------------------------------------------------------
(* Specification of the CSV reader: parseCSVText on a text                  *)

MaxCsvLen == 6

CsvChars == {Quote, ",", "a", " ", "\n", "\r"}

CsvInit ==
    /\ pc = "start"
    /\ \E n \in 0..MaxCsvLen : csvText \in [1..n -> CsvChars]
    /\ csvRows = None
    /\ bugs = <<>>
    /\ monthlyTrends = <<>>
    /\ clock = 0
    /\ rawData = <<>>
    /\ processedData = None
    /\ bugInsights = None
    /\ headerRow = <<>>
    /\ columnMap = None
    /\ sheet = <<>>
    /\ mainRaw = None
    /\ mainData = None
    /\ posted = <<>>
    /\ epicInsights = None
    /\ ticketInsights = None
    /\ achievements = None
    /\ improvementAreas = None
    /\ uploadFile = None
    /\ workerSupported = None
    /\ appStage = None
    /\ appError = None
    /\ steps = None
    /\ inbox = None
    /\ handled = None
    /\ sprintCell = None
    /\ parsedSprints = None
    /\ callbacks = None
    /\ hookLog = None
    /\ appState = None
    /\ delivered = None
    /\ uiEvents = None
    /\ isDragOver = None
    /\ rendered = None

\* XLSXParserService.parseCSVText(text)
ParseCSVText ==
    /\ pc = "start"
    /\ pc' = "csv"
    /\ csvRows' = Some(parseCSVText(csvText))
    /\ UNCHANGED csvText
    /\ UNCHANGED trendVars
    /\ UNCHANGED transformVars
    /\ UNCHANGED columnVars
    /\ UNCHANGED pipelineVars
    /\ UNCHANGED insightVars
    /\ UNCHANGED uploadVars
    /\ UNCHANGED workerVars
    /\ UNCHANGED sprintVars
    /\ UNCHANGED hookVars
    /\ UNCHANGED appVars
    /\ UNCHANGED renderVars

CsvNext == ParseCSVText

SpecCsv == CsvInit /\ [][CsvNext]_vars

CsvParsed == pc = "csv" /\ IsSome(csvRows)
CsvRows == Get(csvRows)

\* The number of quote characters before position i of the line
QuotesBefore(line, i) == Cardinality({j \in 1..(i - 1) : line[j] = Quote})

\* Position i is outside the double-quoted spans
OutsideQuotes(line, i) == QuotesBefore(line, i) % 2 = 0

\* The commas outside the double-quoted spans
SeparatorsOf(line) == {i \in DOMAIN line : line[i] = "," /\ OutsideQuotes(line, i)}

\* The second quote of a doubled quote inside a quoted span
SecondOfDoubledQuote(line, i) ==
    line[i] = Quote /\ i > 1 /\ line[i - 1] = Quote /\ OutsideQuotes(line, i)

\* The characters of positions from..to that belong to the field: every character that
\* is not a quote, and one quote per doubled quote
RECURSIVE FieldChars(_, _, _)
FieldChars(line, from, to) ==
    IF from > to THEN <<>>
    ELSE (IF line[from] # Quote \/ SecondOfDoubledQuote(line, from)
          THEN <<line[from]>> ELSE <<>>) \o FieldChars(line, from + 1, to)

\* The k-th smallest element of a set of numbers
RECURSIVE KthOf(_, _)
KthOf(S, k) == IF k = 1 THEN SetMin(S) ELSE KthOf(S \ {SetMin(S)}, k - 1)

\* The fields of a line: the stretches between the separating commas
FieldsOf(line) ==
    LET seps == SeparatorsOf(line)
        n == Cardinality(seps)
        start(k) == IF k = 1 THEN 1 ELSE KthOf(seps, k - 1) + 1
        end(k) == IF k = n + 1 THEN Len(line) ELSE KthOf(seps, k) - 1
    IN  [k \in 1..(n + 1) |-> Trim(FieldChars(line, start(k), end(k)))]

\* The lines of a text: the stretches between the line feeds, without the carriage
\* return that precedes a line feed
LineFeedsOf(text) == {i \in DOMAIN text : text[i] = "\n"}

LinesOf(text) ==
    LET feeds == LineFeedsOf(text)
        n == Cardinality(feeds)
        start(k) == IF k = 1 THEN 1 ELSE KthOf(feeds, k - 1) + 1
        stop(k) == IF k = n + 1 THEN Len(text)
                   ELSE LET f == KthOf(feeds, k)
                        IN  IF f - 1 >= start(k) /\ text[f - 1] = "\r" THEN f - 2 ELSE f - 1
    IN  [k \in 1..(n + 1) |-> SubSeq(text, start(k), stop(k))]

NotBlankLine(line) == \E i \in DOMAIN line : line[i] \notin WhiteSpace

\* C18: parseCSVRow splits a line at the commas that lie outside the double-quoted
\* spans and only there, so a line has 1 + (number of such commas) fields; a field
\* keeps its characters other than quotes and one quote per doubled quote of a quoted
\* span, not the delimiting quotes (and is trimmed); parseCSVText drops the blank
\* lines and yields the row of each remaining line, in order
C18_CsvFields ==
    CsvParsed =>
        LET lines == LinesOf(csvText)
            kept == SelectSeq(lines, NotBlankLine)
        IN  /\ \A k \in DOMAIN lines :
                  /\ Len(parseCSVRow(lines[k])) = 1 + Cardinality(SeparatorsOf(lines[k]))
                  /\ parseCSVRow(lines[k]) = FieldsOf(lines[k])
            /\ Len(CsvRows) = Len(kept)
            /\ \A k \in DOMAIN kept : CsvRows[k] = FieldsOf(kept[k])

\* A blank line, then a quoted field with a comma and a doubled quote
C18_Witness ==
    /\ CsvParsed
    /\ csvText = <<"\n", Quote, ",", Quote, Quote, Quote>>
    /\ CsvRows = << << <<",", Quote>> >> >>

-----------------------------------------------------------------------------
(* Specification of the upload: PerformantApp.handleFileSelected on a file  *)

FileSizes == {1024, MAX_FILE_SIZE, MAX_FILE_SIZE + 1}
FileNames == {<<"a",".","x","l","s","x">>, <<"A",".","C","S","V">>, <<"a",".","t","x","t">>}
FileTypes == {"", "text/csv", "image/png"}
UploadSheets == {<<>>, <<PipelineHeader, StoryRow>>, <<UnresolvedHeader, StoryRow>>}

UploadInit ==
    /\ pc = "start"
    /\ \E size \in FileSizes : \E name \in FileNames : \E type \in FileTypes :
           uploadFile = Some([size |-> size, name |-> name, type |-> type])
    /\ workerSupported \in BOOLEAN
    /\ appStage = "idle"
    /\ appError = None
    /\ steps = <<>>
    /\ sheet \in UploadSheets
    /\ clock \in ClockValues
    /\ mainRaw = None
    /\ mainData = None
    /\ posted = <<>>
    /\ bugs = <<>>
    /\ monthlyTrends = <<>>
    /\ rawData = <<>>
    /\ processedData = None
    /\ bugInsights = None
    /\ headerRow = <<>>
    /\ columnMap = None
    /\ epicInsights = None
    /\ ticketInsights = None
    /\ achievements = None
    /\ improvementAreas = None
    /\ csvText = None
    /\ csvRows = None
    /\ inbox = None
    /\ handled = None
    /\ sprintCell = None
    /\ parsedSprints = None
    /\ callbacks = None
    /\ hookLog = None
    /\ appState = None
    /\ delivered = None
    /\ uiEvents = None
    /\ isDragOver = None
    /\ rendered = None

\* handleFileSelected up to the end of await file.arrayBuffer()
ReadArrayBuffer ==
    /\ pc = "start"
    /\ pc' = "buffered"
    /\ appStage' = "starting"
    /\ appError' = None
    /\ steps' = Append(steps, "file.arrayBuffer")
    /\ UNCHANGED <<uploadFile, workerSupported>>
    /\ UNCHANGED trendVars
    /\ UNCHANGED transformVars
    /\ UNCHANGED columnVars
    /\ UNCHANGED pipelineVars
    /\ UNCHANGED insightVars
    /\ UNCHANGED csvVars
    /\ UNCHANGED workerVars
    /\ UNCHANGED sprintVars
    /\ UNCHANGED hookVars
    /\ UNCHANGED appVars
    /\ UNCHANGED renderVars

\* handleFileSelected, isSupported: the PARSE_XLSX request, the worker's onmessage for
\* it, and the callback (PARSE_XLSX_COMPLETE) or onError (ERROR) that answers
WorkerPathParse ==
    /\ pc = "buffered"
    /\ workerSupported
    /\ LET messages == handleFileParsing(sheet, 1, clock)
           last == messages[Len(messages)]
       IN  /\ posted' = messages
           /\ steps' = Append(steps, "PARSE_XLSX")
           /\ IF last.type = "ERROR"
              THEN /\ pc' = "settled"
                   /\ appStage' = "error"
                   /\ appError' = Some(last.error)
              ELSE /\ pc' = "workerTransforming"
                   /\ appStage' = "transforming"
                   /\ appError' = appError
    /\ UNCHANGED <<uploadFile, workerSupported>>
    /\ UNCHANGED <<sheet, mainRaw, mainData>>
    /\ UNCHANGED trendVars
    /\ UNCHANGED transformVars
    /\ UNCHANGED columnVars
    /\ UNCHANGED insightVars
    /\ UNCHANGED csvVars
    /\ UNCHANGED workerVars
    /\ UNCHANGED sprintVars
    /\ UNCHANGED hookVars
    /\ UNCHANGED appVars
    /\ UNCHANGED renderVars

\* The TRANSFORM_DATA request of the callback, the worker's onmessage for it, and the
\* callback that sets the stage to complete
WorkerPathTransform ==
    /\ pc = "workerTransforming"
    /\ pc' = "settled"
    /\ posted' = posted \o handleDataTransformation(Get(posted[Len(posted)].data), 2, clock)
    /\ appStage' = "complete"
    /\ appError' = None
    /\ UNCHANGED <<uploadFile, workerSupported, steps>>
    /\ UNCHANGED <<sheet, mainRaw, mainData>>
    /\ UNCHANGED trendVars
    /\ UNCHANGED transformVars
    /\ UNCHANGED columnVars
    /\ UNCHANGED insightVars
    /\ UNCHANGED csvVars
    /\ UNCHANGED workerVars
    /\ UNCHANGED sprintVars
    /\ UNCHANGED hookVars
    /\ UNCHANGED appVars
    /\ UNCHANGED renderVars

\* handleFileSelected, not isSupported: xlsxParser.parseFile(file), transformRawData,
\* and the catch block
FallbackMainThread ==
    /\ pc = "buffered"
    /\ ~workerSupported
    /\ pc' = "settled"
    /\ LET checked == validateFileFormat(uploadFile)
           parsed == XLSXParserService_parseFile(uploadFile, sheet, clock)
       IN  /\ mainRaw' = Some(parsed)
           /\ steps' = IF IsSome(checked.thrown) \/ ~checked.valid THEN steps
                       ELSE Append(steps, "parseFile")
           /\ IF parsed.ok
              THEN /\ mainData' = Some(transformRawData(parsed.tickets, clock))
                   /\ appStage' = "complete"
                   /\ appError' = None
              ELSE /\ mainData' = mainData
                   /\ appStage' = "error"
                   /\ appError' = Some(parsed.error)
    /\ UNCHANGED <<uploadFile, workerSupported>>
    /\ UNCHANGED <<sheet, posted>>
    /\ UNCHANGED trendVars
    /\ UNCHANGED transformVars
    /\ UNCHANGED columnVars
    /\ UNCHANGED insightVars
    /\ UNCHANGED csvVars
    /\ UNCHANGED workerVars
    /\ UNCHANGED sprintVars
    /\ UNCHANGED hookVars
    /\ UNCHANGED appVars
    /\ UNCHANGED renderVars

UploadNext ==
    \/ ReadArrayBuffer
    \/ WorkerPathParse
    \/ WorkerPathTransform
    \/ FallbackMainThread

SpecUpload == UploadInit /\ [][UploadNext]_vars

UploadSettled == pc = "settled"
Oversized == Get(uploadFile).size > MAX_FILE_SIZE

ParseSteps == {i \in DOMAIN steps : steps[i] \in {"PARSE_XLSX", "parseFile"}}

\* C17: a file larger than 50 MiB ends with the size error, whatever its extension,
\* and its content has not been parsed, on the worker path and on the main thread
C17_SizeCeiling ==
    (UploadSettled /\ Oversized) =>
        /\ appError = Some(FileTooLarge)
        /\ ParseSteps = {}

-----------------------------------------------------------------------------
(* Specification of the team extraction: transformRawData on tickets with   *)
(* team fields                                                              *)

MaxTeamTickets == 3

TeamValues ==
    {None, Some(<<>>), Some(<<" ">>), Some(<<",">>), Some(<<"W","e","b">>), Some(<<" ","w","e","b">>),
     Some(<<"W","e","b",","," ","C","o","r","e">>), Some(<<"C","o","r","e",",",","," ","A","p","i"," ">>), Some(<<"A","p","i",",","W","e","b">>)}

TeamsInit ==
    /\ pc = "start"
    /\ clock \in ClockValues
    /\ \E n \in 0..MaxTeamTickets : \E teams \in [1..n -> TeamValues] :
           rawData = [i \in 1..n |-> [BaseTicket EXCEPT !.team = teams[i]]]
    /\ processedData = None
    /\ bugInsights = None
    /\ bugs = <<>>
    /\ monthlyTrends = <<>>
    /\ headerRow = <<>>
    /\ columnMap = None
    /\ sheet = <<>>
    /\ mainRaw = None
    /\ mainData = None
    /\ posted = <<>>
    /\ epicInsights = None
    /\ ticketInsights = None
    /\ achievements = None
    /\ improvementAreas = None
    /\ csvText = None
    /\ csvRows = None
    /\ uploadFile = None
    /\ workerSupported = None
    /\ appStage = None
    /\ appError = None
    /\ steps = None
    /\ inbox = None
    /\ handled = None
    /\ sprintCell = None
    /\ parsedSprints = None
    /\ callbacks = None
    /\ hookLog = None
    /\ appState = None
    /\ delivered = None
    /\ uiEvents = None
    /\ isDragOver = None
    /\ rendered = None

SpecTeams == TeamsInit /\ [][TransformNext]_vars

Teams == Get(processedData).teams

\* The trimmed stretches of a string between its commas (and its ends)
SegmentsOf(s) ==
    LET cuts == {i \in DOMAIN s : s[i] = ","} \cup {0, Len(s) + 1}
    IN  {Trim(SubSeq(s, a + 1, b - 1)) :
            <<a, b>> \in {c \in cuts \X cuts :
                             c[1] < c[2] /\ \A m \in cuts : ~(c[1] < m /\ m < c[2])}}

\* The non-empty segments of the team fields of all raw tickets
NamedTeams ==
    UNION {SegmentsOf(Get(rawData[i].team)) : i \in {j \in DOMAIN rawData : IsSome(rawData[j].team)}}
        \ {<<>>}

\* C21: the team list holds exactly the non-empty trimmed comma-separated segments of
\* the team fields of the raw tickets, each once, in strictly ascending order (the
\* code unit order of Array.prototype.sort); it is empty when no ticket names a team
C21_UniqueSortedTeams ==
    Transformed =>
        /\ Range(Teams) = NamedTeams
        /\ Len(Teams) = Cardinality(NamedTeams)
        /\ \A i, j \in DOMAIN Teams : i < j => StrLess(Teams[i], Teams[j])
        /\ (\A i \in DOMAIN rawData : ~IsSome(rawData[i].team) \/ Trim(Get(rawData[i].team)) = <<>>)
               => Teams = <<>>

\* Three tickets, one with a blank team: Core is named twice and listed once, and the
\* upper-case Web sorts before the lower-case web
C21_Witness ==
    /\ Transformed
    /\ Len(rawData) = 3
    /\ rawData[1].team = Some(<<" ","w","e","b">>)
    /\ rawData[2].team = Some(<<"W","e","b",","," ","C","o","r","e">>)
    /\ rawData[3].team = Some(<<"C","o","r","e",",",","," ","A","p","i"," ">>)
    /\ Teams = <<<<"A","p","i">>, <<"C","o","r","e">>, <<"W","e","b">>, <<"w","e","b">>>>

-----------------------------------------------------------------------------
(* Specification of the worker: self.onmessage on a sequence of requests    *)

MaxRequests == 3

RequestIds == <<"r1", "r2", "r3", "r4", "r5", "r6", "r7", "r8">>

\* The type and data of a request: a workbook to parse, raw data to transform (absent,
\* without tickets, or the tickets of a parsed sheet), or a type the worker does not know
RequestKinds ==
    <<[type |-> "PARSE_XLSX", data |-> Some(<<>>)],
      [type |-> "PARSE_XLSX", data |-> Some(<<PipelineHeader, StoryRow>>)],
      [type |-> "PARSE_XLSX", data |-> Some(<<UnresolvedHeader, StoryRow>>)],
      [type |-> "TRANSFORM_DATA", data |-> None],
      [type |-> "TRANSFORM_DATA", data |-> Some([tickets |-> <<>>])],
      [type |-> "TRANSFORM_DATA",
       data |-> Some([tickets |->
                          worker_parseTicketsFromRows(<<PipelineHeader, StoryRow>>).tickets])],
      [type |-> "PING", data |-> None]>>

WorkerInit ==
    /\ pc = "start"
    /\ clock \in ClockValues
    /\ \E n \in 0..MaxRequests : \E kinds \in [1..n -> DOMAIN RequestKinds] :
           inbox = [i \in 1..n |->
                       [id |-> RequestIds[i], type |-> RequestKinds[kinds[i]].type,
                        data |-> RequestKinds[kinds[i]].data]]
    /\ handled = <<>>
    /\ posted = <<>>
    /\ sheet = <<>>
    /\ mainRaw = None
    /\ mainData = None
    /\ bugs = <<>>
    /\ monthlyTrends = <<>>
    /\ rawData = <<>>
    /\ processedData = None
    /\ bugInsights = None
    /\ headerRow = <<>>
    /\ columnMap = None
    /\ epicInsights = None
    /\ ticketInsights = None
    /\ achievements = None
    /\ improvementAreas = None
    /\ csvText = None
    /\ csvRows = None
    /\ uploadFile = None
    /\ workerSupported = None
    /\ appStage = None
    /\ appError = None
    /\ steps = None
    /\ sprintCell = None
    /\ parsedSprints = None
    /\ callbacks = None
    /\ hookLog = None
    /\ appState = None
    /\ delivered = None
    /\ uiEvents = None
    /\ isDragOver = None
    /\ rendered = None

\* self.onmessage for the oldest request of the queue
WorkerOnMessage ==
    /\ inbox # <<>>
    /\ posted' = posted \o worker_onmessage(Head(inbox), clock)
    /\ handled' = Append(handled, Head(inbox))
    /\ inbox' = Tail(inbox)
    /\ UNCHANGED <<pc, sheet, mainRaw, mainData>>
    /\ UNCHANGED trendVars
    /\ UNCHANGED transformVars
    /\ UNCHANGED columnVars
    /\ UNCHANGED insightVars
    /\ UNCHANGED csvVars
    /\ UNCHANGED uploadVars
    /\ UNCHANGED sprintVars
    /\ UNCHANGED hookVars
    /\ UNCHANGED appVars
    /\ UNCHANGED renderVars

WorkerNext == WorkerOnMessage

SpecWorker == WorkerInit /\ [][WorkerNext]_vars

\* The messages posted with the id of a request, in emission order
PostedFor(id) == SelectSeq(posted, LAMBDA m : m.id = id)

StageOfType(type) == IF type = "PARSE_XLSX" THEN "parsing" ELSE "transforming"
CompleteOfType(type) ==
    IF type = "PARSE_XLSX" THEN "PARSE_XLSX_COMPLETE" ELSE "TRANSFORM_DATA_COMPLETE"

ProgressOf(messages) == SelectSeq(messages, LAMBDA m : m.type = "PROGRESS")

\* C22: within one request the PROGRESS percentages are non-decreasing in emission
\* order, lie in 0..100, and every PROGRESS message carries the stage of the request
\* ('parsing' for PARSE_XLSX, 'transforming' for TRANSFORM_DATA)
C22_ProgressMonotone ==
    \A k \in DOMAIN handled :
        LET reports == ProgressOf(PostedFor(handled[k].id))
        IN  /\ \A i \in DOMAIN reports :
                  /\ reports[i].progress \in 0..100
                  /\ reports[i].stage = StageOfType(handled[k].type)
            /\ \A i, j \in DOMAIN reports :
                  i < j => reports[i].progress <= reports[j].progress

\* A parse request that completes (10, 30, 60, 90) and a transform request that
\* completes (10, 50, 80)
C22_Witness ==
    /\ Len(handled) = 2
    /\ handled[1].type = "PARSE_XLSX"
    /\ handled[2].type = "TRANSFORM_DATA"
    /\ Len(ProgressOf(PostedFor("r1"))) = 4
    /\ Len(ProgressOf(PostedFor("r2"))) = 3
    /\ posted[Len(posted)].type = "TRANSFORM_DATA_COMPLETE"

\* C25: for every request the worker has handled it has posted, with the id of the
\* request, PROGRESS messages followed by exactly one terminal message, which is
\* '<type>_COMPLETE' or 'ERROR'; a request of an unknown type gets the ERROR alone; no
\* message carries another id
C25_OneTerminalMessage ==
    /\ \A k \in DOMAIN handled :
           LET messages == PostedFor(handled[k].id)
               n == Len(messages)
           IN  /\ n >= 1
               /\ messages[n].type \in {CompleteOfType(handled[k].type), "ERROR"}
               /\ \A i \in 1..(n - 1) : messages[i].type = "PROGRESS"
               /\ handled[k].type \notin {"PARSE_XLSX", "TRANSFORM_DATA"} =>
                      /\ n = 1
                      /\ messages[1].type = "ERROR"
    /\ \A i \in DOMAIN posted : \E k \in DOMAIN handled : posted[i].id = handled[k].id

\* An unknown request, a transform request without data and a parse request of a
\* sheet with a data row: ERROR alone, PROGRESS then ERROR, PROGRESS then COMPLETE
C25_Witness ==
    /\ Len(handled) = 3
    /\ handled[1].type = "PING"
    /\ handled[2] = [id |-> "r2", type |-> "TRANSFORM_DATA", data |-> None]
    /\ handled[3].type = "PARSE_XLSX"
    /\ Len(PostedFor("r1")) = 1
    /\ PostedFor("r2")[2].type = "ERROR"
    /\ posted[Len(posted)].type = "PARSE_XLSX_COMPLETE"

-----------------------------------------------------------------------------
(* Specification of the sprint-list parser: parseSprints on a cell value    *)

MaxPieces == 3

SprintPieces == {<<"S","1">>, <<" ">>, <<",">>, <<";">>, <<"|">>, <<"n","a","m","e","=">>, <<"]">>}

RECURSIVE Concat(_)
Concat(pieces) == IF pieces = <<>> THEN <<>> ELSE Head(pieces) \o Concat(Tail(pieces))

SprintsInit ==
    /\ pc = "start"
    /\ \E n \in 0..MaxPieces : \E pieces \in [1..n -> SprintPieces] :
           sprintCell = Some(Concat(pieces))
    /\ parsedSprints = None
    /\ clock = 0
    /\ bugs = <<>>
    /\ monthlyTrends = <<>>
    /\ rawData = <<>>
    /\ processedData = None
    /\ bugInsights = None
    /\ headerRow = <<>>
    /\ columnMap = None
    /\ sheet = <<>>
    /\ mainRaw = None
    /\ mainData = None
    /\ posted = <<>>
    /\ epicInsights = None
    /\ ticketInsights = None
    /\ achievements = None
    /\ improvementAreas = None
    /\ csvText = None
    /\ csvRows = None
    /\ uploadFile = None
    /\ workerSupported = None
    /\ appStage = None
    /\ appError = None
    /\ steps = None
    /\ inbox = None
    /\ handled = None
    /\ callbacks = None
    /\ hookLog = None
    /\ appState = None
    /\ delivered = None
    /\ uiEvents = None
    /\ isDragOver = None
    /\ rendered = None

\* XLSXParserService.parseSprints(value)
ParseSprints ==
    /\ pc = "start"
    /\ pc' = "sprints"
    /\ parsedSprints' = Some(parseSprints(sprintCell))
    /\ UNCHANGED sprintCell
    /\ UNCHANGED trendVars
    /\ UNCHANGED transformVars
    /\ UNCHANGED columnVars
    /\ UNCHANGED pipelineVars
    /\ UNCHANGED insightVars
    /\ UNCHANGED csvVars
    /\ UNCHANGED uploadVars
    /\ UNCHANGED workerVars
    /\ UNCHANGED hookVars
    /\ UNCHANGED appVars
    /\ UNCHANGED renderVars

SprintsNext == ParseSprints

SpecSprints == SprintsInit /\ [][SprintsNext]_vars

SprintsParsed == pc = "sprints"
ParsedSprints == Get(parsedSprints)

\* The value contains name= followed by at least one character other than ',' and ']'
MatchesNamePattern(s) ==
    \E i \in 1..(Len(s) - 5) :
        SubSeq(s, i, i + 4) = <<"n","a","m","e","=">> /\ s[i + 5] \notin {",", "]"}

FirstDelimiter(s) ==
    IF Includes(s, <<",">>) THEN "," ELSE IF Includes(s, <<";">>) THEN ";" ELSE "|"

HasDelimiter(s) == \E i \in DOMAIN s : s[i] \in {",", ";", "|"}

\* C24: an empty value yields the empty list; a value matching the name=... pattern
\* yields its name= payloads instead of a delimiter split; any other value is split
\* on the first delimiter present among comma, semicolon and pipe, the segments
\* trimmed and the empty ones dropped; a value without delimiter yields the trimmed
\* value alone
C24_ParseSprints ==
    SprintsParsed =>
        LET value == Get(sprintCell)
        IN  ParsedSprints =
                IF value = <<>> THEN <<>>
                ELSE IF MatchesNamePattern(value) THEN NameMatches(value)
                ELSE IF HasDelimiter(value) THEN SplitTrimmed(value, FirstDelimiter(value))
                ELSE <<Trim(value)>>

-----------------------------------------------------------------------------
(* Specification of the groupings: transformRawData on tickets that name    *)
(* each other as parents                                                    *)

MaxGroupTickets == 2

\* How a ticket names its parent: not at all, P-1 or P-2 with a parentSummary, or P-1
\* without one
GroupLinks ==
    {[parentKey |-> None, parentSummary |-> None],
     [parentKey |-> Some(<<"P","-","1">>), parentSummary |-> Some(<<"E","p">>)],
     [parentKey |-> Some(<<"P","-","2">>), parentSummary |-> Some(<<"T","w","o">>)],
     [parentKey |-> Some(<<"P","-","1">>), parentSummary |-> None]}

GroupTicket(key, issueType, status, link) ==
    [BaseTicket EXCEPT !.key = key, !.issueType = issueType, !.status = status,
                       !.parentKey = link.parentKey, !.parentSummary = link.parentSummary]

GroupingsInit ==
    /\ pc = "start"
    /\ clock \in ClockValues
    /\ \E n \in 0..MaxGroupTickets :
         \E keys \in [1..n -> {<<"P","-","1">>, <<"P","-","2">>}] :
           \E types \in [1..n -> {<<"E","p","i","c">>, <<"S","t","o","r","y">>}] :
             \E statuses \in [1..n -> {<<"D","o","n","e">>, <<"O","p","e","n">>}] :
               \E links \in [1..n -> GroupLinks] :
                  rawData = [i \in 1..n |->
                                GroupTicket(keys[i], types[i], statuses[i], links[i])]
    /\ processedData = None
    /\ bugInsights = None
    /\ bugs = <<>>
    /\ monthlyTrends = <<>>
    /\ headerRow = <<>>
    /\ columnMap = None
    /\ sheet = <<>>
    /\ mainRaw = None
    /\ mainData = None
    /\ posted = <<>>
    /\ epicInsights = None
    /\ ticketInsights = None
    /\ achievements = None
    /\ improvementAreas = None
    /\ csvText = None
    /\ csvRows = None
    /\ uploadFile = None
    /\ workerSupported = None
    /\ appStage = None
    /\ appError = None
    /\ steps = None
    /\ inbox = None
    /\ handled = None
    /\ sprintCell = None
    /\ parsedSprints = None
    /\ callbacks = None
    /\ hookLog = None
    /\ appState = None
    /\ delivered = None
    /\ uiEvents = None
    /\ isDragOver = None
    /\ rendered = None

SpecGroupings == GroupingsInit /\ [][TransformNext]_vars

\* The groupings a derived ticket is counted in: those named by its parentKey
GroupingsOf(i) ==
    {g \in DOMAIN Epics :
        IsSome(Tickets[i].parentKey) /\ Get(Tickets[i].parentKey) = Epics[g].key}

IsEpicTyped(ticket) == ToLowerCase(ticket.issueType) = <<"e","p","i","c">>

\* The derived tickets other than i whose parentKey is key
OtherMembers(key, i) ==
    {j \in DOMAIN Tickets \ {i} :
        IsSome(Tickets[j].parentKey) /\ Get(Tickets[j].parentKey) = key}

\* C29: the groupings returned by buildEpicAggregations have pairwise distinct keys,
\* 1 <= ticketCount and 0 <= completedTickets <= ticketCount; a derived ticket is
\* counted in at most one grouping, so the ticketCounts add up to at most the number
\* of derived tickets; an Epic-typed ticket whose parentKey is not its own key is not
\* counted in the grouping of its key: that grouping counts the other tickets only,
\* and does not exist when no other ticket names the key
C29_GroupingInvariants ==
    Transformed =>
        /\ \A g, h \in DOMAIN Epics : g # h => Epics[g].key # Epics[h].key
        /\ \A g \in DOMAIN Epics :
               /\ 1 <= Epics[g].ticketCount
               /\ 0 <= Epics[g].completedTickets
               /\ Epics[g].completedTickets <= Epics[g].ticketCount
        /\ \A i \in DOMAIN Tickets : Cardinality(GroupingsOf(i)) <= 1
        /\ SumSeq([g \in DOMAIN Epics |-> Epics[g].ticketCount]) =
               Cardinality({i \in DOMAIN Tickets : GroupingsOf(i) # {}})
        /\ SumSeq([g \in DOMAIN Epics |-> Epics[g].ticketCount]) <= Len(Tickets)
        /\ \A i \in DOMAIN Tickets :
               (IsEpicTyped(Tickets[i]) /\ Tickets[i].parentKey # Some(Tickets[i].key)) =>
                   /\ \A g \in DOMAIN Epics :
                          Epics[g].key = Tickets[i].key =>
                              Epics[g].ticketCount =
                                  Cardinality(OtherMembers(Tickets[i].key, i))
                   /\ OtherMembers(Tickets[i].key, i) = {} =>
                          \A g \in DOMAIN Epics : Epics[g].key # Tickets[i].key

\* An epic P-1 whose parent is P-2 and an epic P-2 that names itself as parent: one
\* grouping, P-2, that counts both tickets, and no grouping for P-1
C29_Witness ==
    /\ Transformed
    /\ rawData = <<GroupTicket(<<"P","-","1">>, <<"E","p","i","c">>, <<"D","o","n","e">>, [parentKey |-> Some(<<"P","-","2">>), parentSummary |-> Some(<<"T","w","o">>)]),
                   GroupTicket(<<"P","-","2">>, <<"E","p","i","c">>, <<"O","p","e","n">>, [parentKey |-> Some(<<"P","-","2">>), parentSummary |-> Some(<<"T","w","o">>)])>>
    /\ Len(Epics) = 1
    /\ Epics[1].key = <<"P","-","2">>
    /\ Epics[1].ticketCount = 2
    /\ Epics[1].completedTickets = 1

\* ---------------------------------------------------------------------------
\* InsightsEngine.generateAllInsights: the five generators run on the same data,
\* in the order of the source; the Error of generateTicketInsights leaves the
\* call without a result.  The metadata of the result is not modelled.
\* ---------------------------------------------------------------------------

generateAllInsights(data) ==
    LET epicInsightsOf == generateEpicInsights(data)
        ticketInsightsOf == generateTicketInsights(data)
    IN IF ~ticketInsightsOf.ok THEN Thrown(ticketInsightsOf.error)
       ELSE Returned([epic |-> epicInsightsOf,
                      ticket |-> ticketInsightsOf,
                      bug |-> generateBugInsights(data),
                      achievements |-> generateAchievements(data),
                      improvementAreas |-> generateImprovementAreas(data)])

MaxEscapedBugs == 3

QualityInit ==
    /\ pc = "start"
    /\ \E stories \in 0..1 :
          \E openBugs \in 0..MaxOpenBugs :
              \E escapedBugs \in 0..MaxEscapedBugs :
                  \E epics \in EpicLists :
                      processedData =
                          Some([tickets |->
                                    Numbered(Repeat(stories, PointedStory)
                                             \o Repeat(openBugs, OpenBug)
                                             \o Repeat(escapedBugs, EscapedBug)),
                                epics |-> epics])
    /\ clock = None
    /\ rawData = None
    /\ bugInsights = None
    /\ bugs = <<>>
    /\ monthlyTrends = <<>>
    /\ headerRow = <<>>
    /\ columnMap = None
    /\ sheet = <<>>
    /\ mainRaw = None
    /\ mainData = None
    /\ posted = <<>>
    /\ epicInsights = None
    /\ ticketInsights = None
    /\ achievements = None
    /\ improvementAreas = None
    /\ csvText = None
    /\ csvRows = None
    /\ uploadFile = None
    /\ workerSupported = None
    /\ appStage = None
    /\ appError = None
    /\ steps = None
    /\ inbox = None
    /\ handled = None
    /\ sprintCell = None
    /\ parsedSprints = None
    /\ callbacks = None
    /\ hookLog = None
    /\ appState = None
    /\ delivered = None
    /\ uiEvents = None
    /\ isDragOver = None
    /\ rendered = None

GenerateAllInsights ==
    /\ pc = "start"
    /\ LET result == generateAllInsights(Get(processedData))
       IN IF ~result.ok
          THEN /\ pc' = "threw"
               /\ UNCHANGED <<epicInsights, ticketInsights, achievements,
                              improvementAreas, bugInsights>>
          ELSE LET insights == Get(result.value)
               IN /\ pc' = "generated"
                  /\ epicInsights' = Some(insights.epic)
                  /\ ticketInsights' = Some(insights.ticket)
                  /\ bugInsights' = Some(insights.bug)
                  /\ achievements' = Some(insights.achievements)
                  /\ improvementAreas' = Some(insights.improvementAreas)
    /\ UNCHANGED <<clock, rawData, processedData>>
    /\ UNCHANGED trendVars
    /\ UNCHANGED columnVars
    /\ UNCHANGED pipelineVars
    /\ UNCHANGED csvVars
    /\ UNCHANGED uploadVars
    /\ UNCHANGED workerVars
    /\ UNCHANGED sprintVars
    /\ UNCHANGED hookVars
    /\ UNCHANGED appVars
    /\ UNCHANGED renderVars

QualityNext == GenerateAllInsights

SpecQuality == QualityInit /\ [][QualityNext]_vars

Generated == pc = "generated"

\* C30: in one result of generateAllInsights the achievement "Quality Focus" and
\* the improvement area "Bug Detection" never appear together, and neither
\* appears when the data holds no ticket whose issue type is bug
C30_QualityExclusive ==
    Generated =>
        /\ ~(Emitted(Achievements, "Quality Focus")
             /\ Emitted(Improvements, "Bug Detection"))
        /\ (\A i \in DOMAIN DataTickets : ~BugType(DataTickets[i]))
              => /\ ~Emitted(Achievements, "Quality Focus")
                 /\ ~Emitted(Improvements, "Bug Detection")

\* Six bugs of which one escaped: Quality Focus alone
C30_Witness ==
    /\ Generated
    /\ Len(SelectSeq(DataTickets, BugType)) = 6
    /\ Len(SelectSeq(DataTickets, EscapedFlag)) = 1
    /\ Emitted(Achievements, "Quality Focus")
    /\ ~Emitted(Improvements, "Bug Detection")

-----------------------------------------------------------------------------
(* Specification of the hook: useWebWorker under calls of postMessage and    *)
(* terminate and messages of any id and type                                 *)

\* callbacksRef.current, a Map<string, callback>: the function from its keys to its values
CallbacksSet(map, key, value) == (key :> value) @@ [k \in DOMAIN map \ {key} |-> map[k]]
CallbacksGet(map, key) == IF key \in DOMAIN map THEN Some(map[key]) ELSE None
CallbacksDelete(map, key) == [k \in DOMAIN map \ {key} |-> map[k]]

\* The mutated handler: a completion message leaves the callback it invoked registered
useWebWorker_onmessageKeeping(map, message) ==
    IF message.type = "PROGRESS"
    THEN [onProgress |-> Some(<<message.progress, message.stage>>), onError |-> None,
          callback |-> None, delete |-> None]
    ELSE IF message.type = "ERROR"
    THEN [onProgress |-> None,
          onError |-> IF message.error # "" THEN Some(message.error) ELSE None,
          callback |-> None,
          delete |-> IF message.id # "" THEN Some(message.id) ELSE None]
    ELSE [onProgress |-> None, onError |-> None,
          callback |-> CallbacksGet(map, message.id), delete |-> None]

\* The mutated handler: an ERROR message deletes the callback and reports nothing
useWebWorker_onmessageSilent(map, message) ==
    IF message.type = "PROGRESS"
    THEN [onProgress |-> Some(<<message.progress, message.stage>>), onError |-> None,
          callback |-> None, delete |-> None]
    ELSE IF message.type = "ERROR"
    THEN [onProgress |-> None, onError |-> None, callback |-> None,
          delete |-> IF message.id # "" THEN Some(message.id) ELSE None]
    ELSE LET callback == CallbacksGet(map, message.id)
         IN  [onProgress |-> None, onError |-> None, callback |-> callback,
              delete |-> IF IsSome(callback) THEN Some(message.id) ELSE None]

\* workerRef.current.onmessage: the option or the callback it calls for a message, and
\* the key it deletes from callbacksRef.current afterwards (both options are given, as
\* PerformantApp gives them; a PROGRESS message carries its percentage)
useWebWorker_onmessage(map, message) ==
    IF message.type = "PROGRESS"
    THEN [onProgress |-> Some(<<message.progress, message.stage>>), onError |-> None,
          callback |-> None, delete |-> None]
    ELSE IF message.type = "ERROR"
    THEN [onProgress |-> None,
          onError |-> IF message.error # "" THEN Some(message.error) ELSE None,
          callback |-> None,
          delete |-> IF message.id # "" THEN Some(message.id) ELSE None]
    ELSE LET callback == CallbacksGet(map, message.id)
         IN  [onProgress |-> None, onError |-> None, callback |-> callback,
              delete |-> IF IsSome(callback) THEN Some(message.id) ELSE None]

\* postMessage(type, data, callback) with the id it drew: callbacksRef.current afterwards
useWebWorker_postMessage(map, id, callback) ==
    IF IsSome(callback) THEN CallbacksSet(map, id, Get(callback)) ELSE map

\* terminate(): callbacksRef.current afterwards; nothing happens without a worker
useWebWorker_terminate(map, hasWorker) == IF hasWorker THEN <<>> ELSE map

\* The entries of hookLog
PostCall(id, type, callback) ==
    [event |-> "postMessage", id |-> id, type |-> type,
     callback |-> IF IsSome(callback) THEN Get(callback) ELSE ""]
MessageEvent(message, invoked) ==
    [event |-> "message", id |-> message.id, type |-> message.type,
     callback |-> IF IsSome(invoked) THEN Get(invoked) ELSE ""]
TerminateCall == [event |-> "terminate", id |-> "", type |-> "", callback |-> ""]

PostCalls(log) == {k \in DOMAIN log : log[k].event = "postMessage"}
TerminateCalls(log) == {k \in DOMAIN log : log[k].event = "terminate"}

\* workerRef.current is set by the initWorker of postMessage and cleared by terminate
HasWorker(log) ==
    \E p \in PostCalls(log) : \A t \in TerminateCalls(log) : t < p

MaxHookEvents == 5

\* The callbacks the callers pass, one per call of postMessage
CallbackNames == <<"c1", "c2", "c3", "c4", "c5", "c6", "c7", "c8">>

HookInit ==
    /\ pc = "mounted"
    /\ callbacks = <<>>
    /\ hookLog = <<>>
    /\ bugs = None
    /\ monthlyTrends = None
    /\ clock = None
    /\ rawData = None
    /\ processedData = None
    /\ bugInsights = None
    /\ headerRow = None
    /\ columnMap = None
    /\ sheet = None
    /\ mainRaw = None
    /\ mainData = None
    /\ posted = None
    /\ epicInsights = None
    /\ ticketInsights = None
    /\ achievements = None
    /\ improvementAreas = None
    /\ csvText = None
    /\ csvRows = None
    /\ uploadFile = None
    /\ workerSupported = None
    /\ appStage = None
    /\ appError = None
    /\ steps = None
    /\ inbox = None
    /\ handled = None
    /\ sprintCell = None
    /\ parsedSprints = None
    /\ appState = None
    /\ delivered = None
    /\ uiEvents = None
    /\ isDragOver = None
    /\ rendered = None

\* postMessage(type, data, callback?) with a fresh id
PostMessage ==
    /\ Len(hookLog) < MaxHookEvents
    /\ \E withCallback \in BOOLEAN :
          LET n == Cardinality(PostCalls(hookLog)) + 1
              callback == IF withCallback THEN Some(CallbackNames[n]) ELSE None
          IN  /\ callbacks' = useWebWorker_postMessage(callbacks, RequestIds[n], callback)
              /\ hookLog' = Append(hookLog, PostCall(RequestIds[n], "PARSE_XLSX", callback))
    /\ UNCHANGED pc
    /\ UNCHANGED trendVars
    /\ UNCHANGED transformVars
    /\ UNCHANGED columnVars
    /\ UNCHANGED pipelineVars
    /\ UNCHANGED insightVars
    /\ UNCHANGED csvVars
    /\ UNCHANGED uploadVars
    /\ UNCHANGED workerVars
    /\ UNCHANGED sprintVars
    /\ UNCHANGED appVars
    /\ UNCHANGED renderVars

\* onmessage for a message of any type that carries the id of a request or none
ReceiveMessage ==
    /\ Len(hookLog) < MaxHookEvents
    /\ \E id \in {hookLog[p].id : p \in PostCalls(hookLog)} \cup {""} :
          \E message \in {Progress(id, 50, "parsing"), ErrorMessage(id, "failed"),
                          Complete(id, "PARSE_XLSX_COMPLETE", <<>>)} :
              LET effect == useWebWorker_onmessage(callbacks, message)
              IN  /\ callbacks' = IF IsSome(effect.delete)
                                  THEN CallbacksDelete(callbacks, Get(effect.delete))
                                  ELSE callbacks
                  /\ hookLog' = Append(hookLog, MessageEvent(message, effect.callback))
    /\ UNCHANGED pc
    /\ UNCHANGED trendVars
    /\ UNCHANGED transformVars
    /\ UNCHANGED columnVars
    /\ UNCHANGED pipelineVars
    /\ UNCHANGED insightVars
    /\ UNCHANGED csvVars
    /\ UNCHANGED uploadVars
    /\ UNCHANGED workerVars
    /\ UNCHANGED sprintVars
    /\ UNCHANGED appVars
    /\ UNCHANGED renderVars

Terminate ==
    /\ Len(hookLog) < MaxHookEvents
    /\ callbacks' = useWebWorker_terminate(callbacks, HasWorker(hookLog))
    /\ hookLog' = Append(hookLog, TerminateCall)
    /\ UNCHANGED pc
    /\ UNCHANGED trendVars
    /\ UNCHANGED transformVars
    /\ UNCHANGED columnVars
    /\ UNCHANGED pipelineVars
    /\ UNCHANGED insightVars
    /\ UNCHANGED csvVars
    /\ UNCHANGED uploadVars
    /\ UNCHANGED workerVars
    /\ UNCHANGED sprintVars
    /\ UNCHANGED appVars
    /\ UNCHANGED renderVars

HookNext ==
    \/ PostMessage
    \/ ReceiveMessage
    \/ Terminate

SpecHook == HookInit /\ [][HookNext]_vars

\* The calls of postMessage that registered a callback
Registrations == {p \in PostCalls(hookLog) : hookLog[p].callback # ""}
\* The messages for which onmessage invoked a callback
Invocations == {k \in DOMAIN hookLog : hookLog[k].event = "message" /\ hookLog[k].callback # ""}
\* The events after which the callback registered under id is gone: terminate, an ERROR
\* message for id, and a message for id that is neither PROGRESS nor ERROR
Unregisters(k, id) ==
    \/ hookLog[k].event = "terminate"
    \/ hookLog[k].event = "message" /\ hookLog[k].id = id /\ hookLog[k].type # "PROGRESS"

\* C26: a callback registered by postMessage under id X is invoked at most once, only
\* by a message with id X whose type is neither PROGRESS nor ERROR, and not after an
\* ERROR message for X or terminate(); the registry holds exactly the callbacks whose
\* registration was followed by no terminate(), no ERROR for their id and no
\* invocation, so PROGRESS messages remove none
C26_CallbackRegistry ==
    /\ \A k \in Invocations :
          /\ hookLog[k].type \notin {"PROGRESS", "ERROR"}
          /\ \E p \in Registrations :
                /\ p < k
                /\ hookLog[p].callback = hookLog[k].callback
                /\ hookLog[p].id = hookLog[k].id
                /\ \A j \in (p + 1)..(k - 1) : ~Unregisters(j, hookLog[p].id)
          /\ \A j \in Invocations : hookLog[j].callback = hookLog[k].callback => j = k
    /\ DOMAIN callbacks =
          {hookLog[p].id : p \in {r \in Registrations :
                                     \A j \in (r + 1)..Len(hookLog) :
                                         ~Unregisters(j, hookLog[r].id)}}
    /\ \A p \in Registrations :
          hookLog[p].id \in DOMAIN callbacks => callbacks[hookLog[p].id] = hookLog[p].callback

\* Two requests answered in the reverse order, the second answer after a PROGRESS
\* message and followed by a duplicate that invokes nothing
C26_Witness ==
    /\ Len(hookLog) = 5
    /\ hookLog[1] = PostCall("r1", "PARSE_XLSX", Some("c1"))
    /\ hookLog[2] = PostCall("r2", "PARSE_XLSX", Some("c2"))
    /\ hookLog[3].event = "message" /\ hookLog[3].id = "r2" /\ hookLog[3].callback = "c2"
    /\ hookLog[4].event = "message" /\ hookLog[4].id = "r1" /\ hookLog[4].type = "PROGRESS"
    /\ hookLog[5].event = "message" /\ hookLog[5].id = "r1" /\ hookLog[5].callback = "c1"
    /\ callbacks = <<>>

-----------------------------------------------------------------------------
(* Specification of the application: PerformantApp with FileUploadComponent, *)
(* the useWebWorker hook and the worker, one step per event or continuation  *)

\* useState<AppState>: the initial state
InitialAppState ==
    [isProcessing |-> FALSE, error |-> None, insights |-> None, processedData |-> None,
     progress |-> 0, stage |-> "idle"]

\* The mutated onError: the progress is kept
onErrorKeepingProgress(prev, error) ==
    [prev EXCEPT !.isProcessing = FALSE, !.error = Some(error), !.stage = "error"]

\* The options given to useWebWorker
onProgress(prev, progress, stage) ==
    [prev EXCEPT !.progress = progress, !.stage = IF stage # "" THEN stage ELSE prev.stage]
onError(prev, error) ==
    [prev EXCEPT !.isProcessing = FALSE, !.error = Some(error), !.progress = 0,
                 !.stage = "error"]

\* The setState calls of handleFileSelected and of its callbacks
Starting(prev) ==
    [prev EXCEPT !.isProcessing = TRUE, !.error = None, !.progress = 0, !.stage = "starting"]
Staged(prev, stage, progress) == [prev EXCEPT !.stage = stage, !.progress = progress]
Completed(insights, data) ==
    [isProcessing |-> FALSE, error |-> None, insights |-> Some(insights),
     processedData |-> Some(data), progress |-> 100, stage |-> "complete"]
Caught(prev, message) ==
    [prev EXCEPT !.isProcessing = FALSE, !.error = Some(message), !.progress = 0,
                 !.stage = "error"]

\* What a render shows of the state: the isProcessing prop of FileUploadComponent, and
\* the dashboard with its reset button in place of the upload section
AppView(state) == [isProcessing |-> state.isProcessing, hasInsights |-> state.insights # None]

\* The mutated handleFileSelect: the file is handed over while processing too
handleFileSelectUngated(file, isProcessing) ==
    IF IsSome(file) THEN <<Get(file)>> ELSE <<>>

\* FileUploadComponent: the calls of onFileSelected a handler makes
handleFileSelect(file, isProcessing) ==
    IF IsSome(file) /\ ~isProcessing THEN <<Get(file)>> ELSE <<>>
handleDrop(files, isProcessing) ==
    IF isProcessing THEN <<>>
    ELSE IF files = <<>> THEN <<>>
    ELSE handleFileSelect(Some(files[1]), isProcessing)
handleInputChange(files, isProcessing) ==
    IF files = <<>> THEN <<>> ELSE handleFileSelect(Some(files[1]), isProcessing)

\* The files a user offers: the File and the first sheet of its workbook
AppFiles ==
    <<[file |-> [size |-> 1024, name |-> <<"a",".","x","l","s","x">>, type |-> ""],
       sheet |-> <<PipelineHeader, StoryRow>>],
      [file |-> [size |-> 1024, name |-> <<"a",".","x","l","s","x">>, type |-> ""],
       sheet |-> <<UnresolvedHeader, StoryRow>>],
      [file |-> [size |-> 1024, name |-> <<"a",".","t","x","t">>, type |-> ""],
       sheet |-> <<PipelineHeader, StoryRow>>]>>

\* e.dataTransfer.files and e.target.files: no file, one file, or two files
FileLists == {<<>>, <<1>>, <<2>>, <<3, 1>>}

MaxFileEvents == 2

ReadFailed == "The requested file could not be read"

\* A run of the pipeline has not ended: handleFileSelected is at an await, a callback
\* is registered, or a message waits for the worker or for the hook
InFlight ==
    \/ pc # "idle"
    \/ DOMAIN callbacks # {}
    \/ inbox # <<>>
    \/ delivered < Len(posted)

AppInit ==
    /\ pc = "idle"
    /\ clock \in ClockValues
    /\ workerSupported \in BOOLEAN
    /\ appState = InitialAppState
    /\ rendered = AppView(InitialAppState)
    /\ isDragOver = FALSE
    /\ uiEvents = <<>>
    /\ callbacks = <<>>
    /\ hookLog = <<>>
    /\ delivered = 0
    /\ inbox = <<>>
    /\ handled = <<>>
    /\ posted = <<>>
    /\ uploadFile = None
    /\ sheet = <<>>
    /\ bugs = None
    /\ monthlyTrends = None
    /\ rawData = None
    /\ processedData = None
    /\ bugInsights = None
    /\ headerRow = None
    /\ columnMap = None
    /\ mainRaw = None
    /\ mainData = None
    /\ epicInsights = None
    /\ ticketInsights = None
    /\ achievements = None
    /\ improvementAreas = None
    /\ csvText = None
    /\ csvRows = None
    /\ appStage = None
    /\ appError = None
    /\ steps = None
    /\ sprintCell = None
    /\ parsedSprints = None

\* handleFileSelected(file) up to its first await, for the calls of onFileSelected an
\* event made; the update is rendered before the next event
OnFileSelected(calls) ==
    IF calls = <<>>
    THEN UNCHANGED <<pc, uploadFile, sheet, appState, rendered>>
    ELSE /\ pc' = "reading"
         /\ uploadFile' = Some(AppFiles[calls[1]].file)
         /\ sheet' = AppFiles[calls[1]].sheet
         /\ appState' = Starting(appState)
         /\ rendered' = AppView(Starting(appState))

UiEvent(via, files, calls) ==
    [via |-> via, files |-> files, isProcessing |-> rendered.isProcessing,
     inFlight |-> InFlight, selected |-> calls]

DragOver ==
    /\ ~rendered.hasInsights
    /\ isDragOver' = (IF ~rendered.isProcessing THEN TRUE ELSE isDragOver)
    /\ UNCHANGED <<pc, bugs, monthlyTrends, clock, rawData, processedData, bugInsights,
                   headerRow, columnMap, sheet, mainRaw, mainData, posted, epicInsights,
                   ticketInsights, achievements, improvementAreas, csvText, csvRows,
                   uploadFile, workerSupported, appStage, appError, steps, inbox, handled,
                   sprintCell, parsedSprints, callbacks, hookLog, appState, delivered,
                   uiEvents, rendered>>

DragLeave ==
    /\ ~rendered.hasInsights
    /\ isDragOver' = FALSE
    /\ UNCHANGED <<pc, bugs, monthlyTrends, clock, rawData, processedData, bugInsights,
                   headerRow, columnMap, sheet, mainRaw, mainData, posted, epicInsights,
                   ticketInsights, achievements, improvementAreas, csvText, csvRows,
                   uploadFile, workerSupported, appStage, appError, steps, inbox, handled,
                   sprintCell, parsedSprints, callbacks, hookLog, appState, delivered,
                   uiEvents, rendered>>

Drop ==
    /\ ~rendered.hasInsights
    /\ Len(uiEvents) < MaxFileEvents
    /\ \E files \in FileLists :
          LET calls == handleDrop(files, rendered.isProcessing)
          IN  /\ uiEvents' = Append(uiEvents, UiEvent("drop", files, calls))
              /\ OnFileSelected(calls)
    /\ isDragOver' = FALSE
    /\ UNCHANGED <<bugs, monthlyTrends, clock, rawData, processedData, bugInsights,
                   headerRow, columnMap, mainRaw, mainData, posted, epicInsights,
                   ticketInsights, achievements, improvementAreas, csvText, csvRows,
                   workerSupported, appStage, appError, steps, inbox, handled, sprintCell,
                   parsedSprints, callbacks, hookLog, delivered>>

InputChange ==
    /\ ~rendered.hasInsights
    /\ Len(uiEvents) < MaxFileEvents
    /\ \E files \in FileLists :
          LET calls == handleInputChange(files, rendered.isProcessing)
          IN  /\ uiEvents' = Append(uiEvents, UiEvent("change", files, calls))
              /\ OnFileSelected(calls)
    /\ UNCHANGED <<bugs, monthlyTrends, clock, rawData, processedData, bugInsights,
                   headerRow, columnMap, mainRaw, mainData, posted, epicInsights,
                   ticketInsights, achievements, improvementAreas, csvText, csvRows,
                   workerSupported, appStage, appError, steps, inbox, handled, sprintCell,
                   parsedSprints, callbacks, hookLog, delivered, isDragOver>>

\* await file.arrayBuffer() ends: the catch block, the PARSE_XLSX request, or the
\* await of the import on the main-thread path
ArrayBufferSettled ==
    /\ pc = "reading"
    /\ \E resolved \in BOOLEAN :
          IF ~resolved
          THEN /\ pc' = "idle"
               /\ appState' = Caught(appState, ReadFailed)
               /\ UNCHANGED <<callbacks, hookLog, inbox>>
          ELSE IF workerSupported
          THEN LET id == RequestIds[Cardinality(PostCalls(hookLog)) + 1]
               IN  /\ pc' = "idle"
                   /\ appState' = [appState EXCEPT !.stage = "parsing"]
                   /\ callbacks' = useWebWorker_postMessage(callbacks, id, Some("onParsed"))
                   /\ hookLog' = Append(hookLog, PostCall(id, "PARSE_XLSX", Some("onParsed")))
                   /\ inbox' = Append(inbox, [id |-> id, type |-> "PARSE_XLSX",
                                              data |-> Some(sheet)])
          ELSE /\ pc' = "importing"
               /\ UNCHANGED <<appState, callbacks, hookLog, inbox>>
    /\ UNCHANGED <<bugs, monthlyTrends, clock, rawData, processedData, bugInsights,
                   headerRow, columnMap, sheet, mainRaw, mainData, posted, epicInsights,
                   ticketInsights, achievements, improvementAreas, csvText, csvRows,
                   uploadFile, workerSupported, appStage, appError, steps, handled,
                   sprintCell, parsedSprints, delivered, uiEvents, isDragOver, rendered>>

\* await import('../services') ends: the services are built and parseFile is awaited
FallbackImported ==
    /\ pc = "importing"
    /\ pc' = "parsing"
    /\ appState' = Staged(appState, "parsing", 25)
    /\ UNCHANGED <<bugs, monthlyTrends, clock, rawData, processedData, bugInsights,
                   headerRow, columnMap, sheet, mainRaw, mainData, posted, epicInsights,
                   ticketInsights, achievements, improvementAreas, csvText, csvRows,
                   uploadFile, workerSupported, appStage, appError, steps, inbox, handled,
                   sprintCell, parsedSprints, callbacks, hookLog, delivered, uiEvents,
                   isDragOver, rendered>>

\* await xlsxParser.parseFile(file) ends: transformRawData, generateAllInsights and the
\* final setState, or the catch block
FallbackParsed ==
    /\ pc = "parsing"
    /\ pc' = "idle"
    /\ LET parsed == XLSXParserService_parseFile(uploadFile, sheet, clock)
       IN  IF ~parsed.ok THEN appState' = Caught(appState, parsed.error)
           ELSE LET data == transformRawData(parsed.tickets, clock)
                    result == generateAllInsights(data)
                IN  IF ~result.ok THEN appState' = Caught(appState, result.error)
                    ELSE appState' = Completed(Get(result.value), data)
    /\ UNCHANGED <<bugs, monthlyTrends, clock, rawData, processedData, bugInsights,
                   headerRow, columnMap, sheet, mainRaw, mainData, posted, epicInsights,
                   ticketInsights, achievements, improvementAreas, csvText, csvRows,
                   uploadFile, workerSupported, appStage, appError, steps, inbox, handled,
                   sprintCell, parsedSprints, callbacks, hookLog, delivered, uiEvents,
                   isDragOver, rendered>>

\* workerRef.current.onmessage for the next message of the worker, with the option or
\* the callback it calls: onParsed posts TRANSFORM_DATA, onTransformed stores the
\* insights; a callback that throws leaves its entry in callbacksRef.current
HookOnMessage ==
    /\ delivered < Len(posted)
    /\ delivered' = delivered + 1
    /\ LET message == posted[delivered + 1]
           effect == useWebWorker_onmessage(callbacks, message)
           received == Append(hookLog, MessageEvent(message, effect.callback))
           removed == IF IsSome(effect.delete)
                      THEN CallbacksDelete(callbacks, Get(effect.delete)) ELSE callbacks
       IN  IF IsSome(effect.onProgress)
           THEN /\ appState' = onProgress(appState, Get(effect.onProgress)[1],
                                          Get(effect.onProgress)[2])
                /\ callbacks' = removed
                /\ hookLog' = received
                /\ inbox' = inbox
           ELSE IF effect.callback = Some("onParsed")
           THEN LET id == RequestIds[Cardinality(PostCalls(hookLog)) + 1]
                IN  /\ appState' = Staged(appState, "transforming", 0)
                    /\ callbacks' =
                          CallbacksDelete(
                              useWebWorker_postMessage(callbacks, id, Some("onTransformed")),
                              message.id)
                    /\ hookLog' = Append(received,
                                         PostCall(id, "TRANSFORM_DATA", Some("onTransformed")))
                    /\ inbox' = Append(inbox, [id |-> id, type |-> "TRANSFORM_DATA",
                                               data |-> message.data])
           ELSE IF effect.callback = Some("onTransformed")
           THEN LET result == generateAllInsights(Get(message.data))
                IN  /\ IF result.ok
                       THEN /\ appState' = Completed(Get(result.value), Get(message.data))
                            /\ callbacks' = removed
                       ELSE /\ appState' = Staged(appState, "analyzing", 90)
                            /\ callbacks' = callbacks
                    /\ hookLog' = received
                    /\ inbox' = inbox
           ELSE /\ appState' = IF IsSome(effect.onError)
                               THEN onError(appState, Get(effect.onError)) ELSE appState
                /\ callbacks' = removed
                /\ hookLog' = received
                /\ inbox' = inbox
    /\ UNCHANGED <<pc, bugs, monthlyTrends, clock, rawData, processedData, bugInsights,
                   headerRow, columnMap, sheet, mainRaw, mainData, posted, epicInsights,
                   ticketInsights, achievements, improvementAreas, csvText, csvRows,
                   uploadFile, workerSupported, appStage, appError, steps, handled,
                   sprintCell, parsedSprints, uiEvents, isDragOver, rendered>>

\* React renders the state that a message or a continuation has set
Render ==
    /\ rendered # AppView(appState)
    /\ rendered' = AppView(appState)
    /\ UNCHANGED <<pc, bugs, monthlyTrends, clock, rawData, processedData, bugInsights,
                   headerRow, columnMap, sheet, mainRaw, mainData, posted, epicInsights,
                   ticketInsights, achievements, improvementAreas, csvText, csvRows,
                   uploadFile, workerSupported, appStage, appError, steps, inbox, handled,
                   sprintCell, parsedSprints, callbacks, hookLog, appState, delivered,
                   uiEvents, isDragOver>>

\* resetDashboard, the onClick of the button shown with the insights: terminate() ends
\* the worker, whose messages are delivered no more
ResetDashboard ==
    /\ rendered.hasInsights
    /\ appState' = InitialAppState
    /\ rendered' = AppView(InitialAppState)
    /\ callbacks' = useWebWorker_terminate(callbacks, HasWorker(hookLog))
    /\ hookLog' = Append(hookLog, TerminateCall)
    /\ inbox' = <<>>
    /\ delivered' = Len(posted)
    /\ UNCHANGED <<pc, bugs, monthlyTrends, clock, rawData, processedData, bugInsights,
                   headerRow, columnMap, sheet, mainRaw, mainData, posted, epicInsights,
                   ticketInsights, achievements, improvementAreas, csvText, csvRows,
                   uploadFile, workerSupported, appStage, appError, steps, handled,
                   sprintCell, parsedSprints, uiEvents, isDragOver>>

AppNext ==
    \/ DragOver
    \/ DragLeave
    \/ Drop
    \/ InputChange
    \/ ArrayBufferSettled
    \/ FallbackImported
    \/ FallbackParsed
    \/ WorkerOnMessage
    \/ HookOnMessage
    \/ Render
    \/ ResetDashboard

SpecApp == AppInit /\ [][AppNext]_vars

\* What the handlers of the heavy steps advance: the worker takes the head of its
\* inbox (WorkerOnMessage), the hook receives the next posted message (HookOnMessage),
\* the awaited parseFile settles (FallbackParsed)
WorkerHandles == inbox # <<>> /\ inbox' = Tail(inbox)
HookReceives == delivered < Len(posted) /\ delivered' = delivered + 1
ParseFileSettles == pc = "parsing" /\ pc' = "idle"

\* The promises of the browser settle, the worker handles every message it is sent and
\* every message it posts is delivered.  Weak fairness of WorkerOnMessage, HookOnMessage
\* and FallbackParsed implies the three conditions stated on inbox, delivered and pc:
\* each of these actions is enabled whenever the condition's step is, and its steps are
\* steps of it.
SpecAppLive ==
    /\ AppInit
    /\ [][AppNext]_vars
    /\ WF_vars(ArrayBufferSettled)
    /\ WF_vars(FallbackImported)
    /\ WF_pc(ParseFileSettles)
    /\ WF_inbox(WorkerHandles)
    /\ WF_delivered(HookReceives)

\* The two ways an upload ends
EndedComplete ==
    /\ ~appState.isProcessing
    /\ appState.stage = "complete"
    /\ appState.insights # None
EndedInError ==
    /\ ~appState.isProcessing
    /\ appState.stage = "error"
    /\ appState.error # None

\* C28: an upload that PerformantApp has accepted leaves the processing state: from
\* every state with isProcessing = true the run reaches isProcessing = false with
\* stage 'complete' and the insights set, or with stage 'error' and the error set
C28_UploadLiveness == appState.isProcessing ~> (EndedComplete \/ EndedInError)

\* An upload ended in error on the worker path, the next one ended complete
C28_Witness ==
    /\ EndedComplete
    /\ workerSupported
    /\ \E k \in DOMAIN hookLog : hookLog[k].event = "message" /\ hookLog[k].type = "ERROR"
    /\ Len(SelectSeq(uiEvents, LAMBDA e : e.selected # <<>>)) = 2

\* C23: while the isProcessing prop is true no drop and no input change invokes
\* onFileSelected; while it is false an event with a file invokes it exactly once, with
\* the first file of the event; and onFileSelected is never invoked while a pipeline
\* run is in flight
C23_UploadGating ==
    \A k \in DOMAIN uiEvents :
        LET e == uiEvents[k]
        IN  /\ e.isProcessing => e.selected = <<>>
            /\ ~e.isProcessing =>
                  e.selected = (IF e.files = <<>> THEN <<>> ELSE <<e.files[1]>>)
            /\ e.selected # <<>> => ~e.inFlight

\* A dropped file starts a run; an input change during the run is ignored
C23_Witness ==
    /\ Len(uiEvents) = 2
    /\ uiEvents[1].via = "drop" /\ uiEvents[1].selected = <<1>>
    /\ uiEvents[2].via = "change" /\ uiEvents[2].files = <<2>>
    /\ uiEvents[2].isProcessing /\ uiEvents[2].inFlight
    /\ uiEvents[2].selected = <<>>

\* The last call of postMessage with that type, 0 if there is none
LastPostCall(log, type) ==
    LET calls == {0} \cup {p \in PostCalls(log) : log[p].type = type}
    IN  CHOOSE p \in calls : \A q \in calls : q <= p

\* What one step adds to hookLog
AddedToLog == SubSeq(hookLog', Len(hookLog) + 1, Len(hookLog'))

\* The step is onmessage for a message of that type that answers the last request of
\* requestType, which is the latest request of the upload
Answers(type, requestType) ==
    /\ AddedToLog # <<>>
    /\ AddedToLog[1].event = "message"
    /\ AddedToLog[1].type = type
    /\ LastPostCall(hookLog, requestType) > 0
    /\ AddedToLog[1].id = hookLog[LastPostCall(hookLog, requestType)].id
    /\ LastPostCall(hookLog, "PARSE_XLSX") <= LastPostCall(hookLog, requestType)

StageOrderingStep ==
    /\ \A i \in DOMAIN AddedToLog :
          (AddedToLog[i].event = "postMessage" /\ AddedToLog[i].type = "TRANSFORM_DATA")
              => /\ Answers("PARSE_XLSX_COMPLETE", "PARSE_XLSX")
                 /\ LastPostCall(hookLog, "TRANSFORM_DATA") < LastPostCall(hookLog, "PARSE_XLSX")
    /\ (/\ workerSupported
        /\ \/ appState'.insights # None /\ appState'.insights # appState.insights
           \/ appState'.stage = "complete" /\ appState.stage # "complete")
          => /\ Answers("TRANSFORM_DATA_COMPLETE", "TRANSFORM_DATA")
             /\ appState'.stage = "complete"
             /\ appState'.progress = 100
             /\ ~appState'.isProcessing
             /\ appState'.error = None
             /\ appState'.insights # None
    /\ (AddedToLog # <<>> /\ AddedToLog[1].event = "message" /\ AddedToLog[1].type = "ERROR")
          => /\ appState'.stage = "error"
             /\ appState'.progress = 0
             /\ ~appState'.isProcessing
             /\ appState'.error # None
             /\ appState'.insights = appState.insights
             /\ Len(AddedToLog) = 1
             /\ DOMAIN callbacks' = {}
    /\ (workerSupported /\ appState.stage = "error" /\ appState' # appState)
          => appState' = Starting(appState)

\* C27: on the worker path TRANSFORM_DATA is posted only in the step that receives the
\* PARSE_XLSX_COMPLETE of the upload's PARSE_XLSX request, once; the insights are stored
\* (stage 'complete', progress 100, isProcessing false, error null) only in the step
\* that receives the TRANSFORM_DATA_COMPLETE of the upload's TRANSFORM_DATA request; an
\* ERROR message posts nothing, stores no insights, leaves no callback registered and
\* sets stage 'error', progress 0, isProcessing false and the error, and that state
\* stays until the next upload starts
C27_StageOrdering == [][StageOrderingStep]_vars

\* After a completed upload and a reset, the next upload ended with an ERROR message
C27_Witness ==
    /\ workerSupported
    /\ EndedInError
    /\ appState.progress = 0
    /\ appState.insights = None
    /\ TerminateCalls(hookLog) # {}
    /\ hookLog[Len(hookLog)].type = "ERROR"

====
